---------------------------- MODULE Spec2Model ----------------------------
(***************************************************************************)
(* Model of the quiz application's local question generator                *)
(* (src/app/routes.py): clean_question, generate_distractors,              *)
(* generate_content_based_fallback and the /generate handler               *)
(* generate_questions; and of the blueprint application (src/run.py,       *)
(* src/app/routes/): login, registration, the quiz and attempt handlers    *)
(* and the administrator's delete handlers over the SQLite tables.         *)
(*                                                                         *)
(* Python strings are TLA+ strings; a character is a string of length 1.   *)
(* The regular expressions of the source are operators that scan a string  *)
(* the way Python's re module does (leftmost match, greedy quantifiers,    *)
(* non-overlapping substitution).                                          *)
(***************************************************************************)
EXTENDS Integers, Sequences, FiniteSets, TLC

VARIABLES
    \* ---- one /generate request (generate_questions) ----
    request,             \* the JSON body: context and num_questions
    context,             \* data["context"].strip()
    num_questions,       \* int(data["num_questions"])
    pc,                  \* position of the handler
    chunks,              \* list of usable chunks
    attempt,             \* number of loop iterations started so far
    response_questions,  \* accepted questions
    used_questions,      \* set of question texts already seen
    question_text,       \* question of the attempt being padded
    answer,              \* answer of the attempt being padded
    answer_score,        \* its confidence, in hundredths
    options,             \* option list of the attempt being padded
    qg_calls,            \* calls made to qg_pipeline
    qa_calls,            \* calls made to qa_pipeline
    response,            \* the HTTP response
    quizzes,             \* rows of table quizzes
    questions,           \* rows of table questions
    session,             \* the Flask session
    \* ---- clean_question applied twice ----
    cq_raw, cq_once, cq_twice, cq_pc,
    \* ---- generate_distractors called twice ----
    gd_answer, gd_count, gd_context, gd_first, gd_second, gd_pc,
    \* ---- generate_content_based_fallback called twice ----
    fb_context, fb_count, fb_first, fb_second, fb_pc,
    \* ---- the blueprint application (src/run.py, src/app/routes/) ----
    db,                  \* the tables of instance/database.db and sqlite_sequence
    sessions,            \* the Flask session of each browser
    now,                 \* CURRENT_TIMESTAMP, in seconds
    http_request,        \* the request handled last
    http_response,       \* its response
    executed,            \* the SQL statements it executed: <<verb, table>>
    served               \* number of requests served so far

run_vars == <<request, context, num_questions, pc, chunks, attempt, response_questions,
              used_questions, question_text, answer, answer_score, options, qg_calls,
              qa_calls, response, quizzes, questions,
              session>>
cq_vars == <<cq_raw, cq_once, cq_twice, cq_pc>>
gd_vars == <<gd_answer, gd_count, gd_context, gd_first, gd_second, gd_pc>>
fb_vars == <<fb_context, fb_count, fb_first, fb_second, fb_pc>>
app_vars == <<db, sessions, now, http_request, http_response, executed, served>>
vars == <<run_vars, cq_vars, gd_vars, fb_vars, app_vars>>

---------------------------------------------------------------------------
(* Characters and Python's str methods *)

Ch(s, i) == SubSeq(s, i, i)

From(s, i) == SubSeq(s, i, Len(s))

\* least k in lo..hi with P(k); hi + 1 when there is none
FirstIndex(lo, hi, P(_)) ==
    IF \E k \in lo..hi : P(k)
    THEN CHOOSE k \in lo..hi : P(k) /\ \A m \in lo..(k - 1) : ~P(m)
    ELSE hi + 1

\* greatest k in lo..hi with P(k); lo - 1 when there is none
LastIndex(lo, hi, P(_)) ==
    IF \E k \in lo..hi : P(k)
    THEN CHOOSE k \in lo..hi : P(k) /\ \A m \in (k + 1)..hi : ~P(m)
    ELSE lo - 1

\* the k-th smallest element of a finite set of integers
Nth(S, k) == CHOOSE x \in S : Cardinality({y \in S : y <= x}) = k

LowerLetters == "abcdefghijklmnopqrstuvwxyz"

UpperLetters == "ABCDEFGHIJKLMNOPQRSTUVWXYZ"

CharsOf(s) == {Ch(s, i) : i \in 1..Len(s)}

LowerSet == CharsOf(LowerLetters)

UpperSet == CharsOf(UpperLetters)

DigitSet == CharsOf("0123456789")

\* \s of the re module (ASCII part)
SpaceSet == {" ", "\t", "\n", "\r", "\f"}

\* [.,;:]
PunctSet == {".", ",", ";", ":"}

islower(c) == c \in LowerSet

isupper(c) == c \in UpperSet

isalpha(c) == c \in LowerSet \/ c \in UpperSet

isalnum(c) == isalpha(c) \/ c \in DigitSet

\* \w of the re module (ASCII part)
isword(c) == isalnum(c) \/ c = "_"

isspace(c) == c \in SpaceSet

ToUpper == [c \in LowerSet |->
              Ch(UpperLetters, CHOOSE i \in 1..26 : Ch(LowerLetters, i) = c)]

ToLower == [c \in UpperSet |->
              Ch(LowerLetters, CHOOSE i \in 1..26 : Ch(UpperLetters, i) = c)]

upperChar(c) == IF islower(c) THEN ToUpper[c] ELSE c

lowerChar(c) == IF isupper(c) THEN ToLower[c] ELSE c

RECURSIVE lower(_)
\* str.lower(), halving the string to keep the recursion shallow
lower(s) ==
    IF Len(s) <= 1 THEN lowerChar(s)
    ELSE lower(SubSeq(s, 1, Len(s) \div 2)) \o lower(From(s, Len(s) \div 2 + 1))

\* str.capitalize(): first character upper-cased, the rest lower-cased
capitalize(s) == IF s = "" THEN "" ELSE upperChar(Ch(s, 1)) \o lower(From(s, 2))

\* index of the first character at or after i that is not whitespace (Len+1 if none)
SkipSpace(s, i) == LET NonSpace(k) == ~isspace(Ch(s, k)) IN FirstIndex(i, Len(s), NonSpace)

\* index of the first whitespace character at or after i (Len+1 if none)
SkipNonSpace(s, i) == LET Space(k) == isspace(Ch(s, k)) IN FirstIndex(i, Len(s), Space)

lstrip(s) == From(s, SkipSpace(s, 1))

rstrip(s) ==
    LET NonSpace(k) == ~isspace(Ch(s, k)) IN SubSeq(s, 1, LastIndex(1, Len(s), NonSpace))

\* str.strip()
strip(s) == lstrip(rstrip(s))

\* str.rstrip(c) for a single character c
rstripChar(s, c) ==
    LET Other(k) == Ch(s, k) # c IN SubSeq(s, 1, LastIndex(1, Len(s), Other))

endswith(s, t) == Len(s) >= Len(t) /\ SubSeq(s, Len(s) - Len(t) + 1, Len(s)) = t

\* t in s (substring test)
contains(s, t) == \E i \in 1..(Len(s) - Len(t) + 1) : SubSeq(s, i, i + Len(t) - 1) = t

\* str.count(c) for a single character c
count(s, c) == Cardinality({i \in 1..Len(s) : Ch(s, i) = c})

\* str.split(): the whitespace-separated words
split(s) ==
    LET starts == {i \in 1..Len(s) :
                     ~isspace(Ch(s, i)) /\ (i = 1 \/ isspace(Ch(s, i - 1)))}
    IN [k \in 1..Cardinality(starts) |->
          SubSeq(s, Nth(starts, k), SkipNonSpace(s, Nth(starts, k)) - 1)]

RECURSIVE join(_, _)
\* sep.join(words)
join(sep, words) ==
    IF words = <<>> THEN ""
    ELSE IF Len(words) = 1 THEN words[1]
    ELSE words[1] \o sep \o join(sep, Tail(words))

---------------------------------------------------------------------------
(* clean_question, src/app/routes.py:697-730 *)

\* index of the first ">" at or after i (Len+1 if none)
FindGt(s, i) == LET Gt(k) == Ch(s, k) = ">" IN FirstIndex(i, Len(s), Gt)

\* a match of <[^>]+> starts at k
IsTagStart(s, k) ==
    Ch(s, k) = "<" /\ FindGt(s, k + 1) >= k + 2 /\ FindGt(s, k + 1) <= Len(s)

\* index of the first match of <[^>]+> at or after i (Len+1 if none)
NextTag(s, i) == LET Tag(k) == IsTagStart(s, k) IN FirstIndex(i, Len(s), Tag)

RECURSIVE RemoveTagsFrom(_, _)
RECURSIVE RemoveTagAt(_, _, _)
\* the text from i on when the next tag starts at t
RemoveTagAt(s, i, t) ==
    IF t > Len(s) THEN From(s, i)
    ELSE SubSeq(s, i, t - 1) \o RemoveTagsFrom(s, FindGt(s, t + 1) + 1)

RemoveTagsFrom(s, i) == RemoveTagAt(s, i, NextTag(s, i))

\* re.sub(r'<[^>]+>', '', s)
RemoveTags(s) == RemoveTagsFrom(s, 1)

\* a run of \w characters starts at k
IsWordStart(s, k) == isword(Ch(s, k)) /\ (k = 1 \/ ~isword(Ch(s, k - 1)))

\* index of the last character of the run of \w characters that starts at i
WordEnd(s, i) ==
    LET NonWord(k) == ~isword(Ch(s, k)) IN FirstIndex(i + 1, Len(s), NonWord) - 1

\* (?:\s+\1)+ applied greedily after position p: index of the last character
\* matched (p when there is no repetition)
RECURSIVE RepEnd(_, _, _)
RepEnd(s, p, w) ==
    LET b == SkipSpace(s, p + 1)
        e == b + Len(w) - 1
    IN IF b > p + 1 /\ e <= Len(s) /\ SubSeq(s, b, e) = w
       THEN RepEnd(s, e, w)
       ELSE p

\* index of the first start of a run of \w at or after i (Len+1 if none)
NextWord(s, i) == LET Start(k) == IsWordStart(s, k) IN FirstIndex(i, Len(s), Start)

RECURSIVE CollapseFrom(_, _)
RECURSIVE CollapseWord(_, _, _, _)
\* the text from i on when the next word is w = s[b..e]
CollapseWord(s, i, e, w) ==
    SubSeq(s, i, e - Len(w)) \o w \o CollapseFrom(s, RepEnd(s, e, w) + 1)

RECURSIVE CollapseAt(_, _, _)
CollapseAt(s, i, b) ==
    IF b > Len(s) THEN From(s, i)
    ELSE CollapseWord(s, i, WordEnd(s, b), SubSeq(s, b, WordEnd(s, b)))

CollapseFrom(s, i) == CollapseAt(s, i, NextWord(s, i))

\* re.sub(r'(\b\w+\b)(?:\s+\1)+', r'\1', s)
CollapseRepeats(s) == CollapseFrom(s, 1)

\* index of the last "?" of the run of "?" that starts at i
QRunEnd(s, i) ==
    LET NotQ(k) == Ch(s, k) # "?" IN FirstIndex(i + 1, Len(s), NotQ) - 1

\* start of the leftmost match of \?+\s+ (Len+1 if none)
FindQSep(s) ==
    LET Sep(k) == /\ Ch(s, k) = "?"
                  /\ QRunEnd(s, k) + 1 <= Len(s)
                  /\ isspace(Ch(s, QRunEnd(s, k) + 1))
    IN FirstIndex(1, Len(s), Sep)

\* re.split(r'\?+\s+', s)[0]
FirstSegment(s) == SubSeq(s, 1, FindQSep(s) - 1)

rstripPunct(s) ==
    LET Other(k) == Ch(s, k) \notin PunctSet IN SubSeq(s, 1, LastIndex(1, Len(s), Other))

\* re.sub(r'[.,;:]+$', '', s); "$" also matches before a final newline
StripTrailingPunct(s) ==
    IF s # "" /\ Ch(s, Len(s)) = "\n"
    THEN rstripPunct(SubSeq(s, 1, Len(s) - 1)) \o "\n"
    ELSE rstripPunct(s)

\* lines 712-713
AppendQuestionMark(s) == IF endswith(s, "?") THEN s ELSE s \o "?"

\* lines 719-720
ForceQuestionMark(s) == IF endswith(s, "?") THEN s ELSE rstripChar(s, ".") \o "?"

\* lines 723-724
CapitalizeFirst(s) ==
    IF s # "" /\ islower(Ch(s, 1)) THEN upperChar(Ch(s, 1)) \o From(s, 2) ELSE s

\* lines 726-728: at most 15 words, else the first 12 and an ellipsis
MaxQuestionWords == 15

TruncatedWords == 12

TruncateWords(s, ws) ==
    IF Len(ws) > MaxQuestionWords
    THEN join(" ", SubSeq(ws, 1, TruncatedWords)) \o "...?"
    ELSE s

LimitLength(s) == TruncateWords(s, split(s))

clean_question(raw) ==
    IF raw = "" THEN ""
    ELSE LimitLength(
           CapitalizeFirst(
             ForceQuestionMark(
               StripTrailingPunct(
                 AppendQuestionMark(
                   strip(FirstSegment(CollapseRepeats(strip(RemoveTags(raw))))))))))

---------------------------------------------------------------------------
(* generate_distractors, src/app/routes.py:732-800 *)

\* every character of s is in the class (a set of characters)
AllIn(s, class) == \A i \in 1..Len(s) : Ch(s, i) \in class

\* the maximal runs of \w characters of s, in order
WordRuns(s) ==
    LET starts == {i \in 1..Len(s) : IsWordStart(s, i)}
    IN [k \in 1..Cardinality(starts) |->
          SubSeq(s, Nth(starts, k), WordEnd(s, Nth(starts, k)))]

\* re.findall(r'\b[A-Za-z]+\b', s)
AlphaWords(s) ==
    LET IsAlphaWord(w) == AllIn(w, LowerSet \cup UpperSet)
    IN SelectSeq(WordRuns(s), IsAlphaWord)

\* re.findall(r'\b[A-Z][a-z]+\b', s)
CapitalizedWords(s) ==
    LET IsCap(w) == Len(w) >= 2 /\ isupper(Ch(w, 1)) /\ AllIn(From(w, 2), LowerSet)
    IN SelectSeq(WordRuns(s), IsCap)

Range(seq) == {seq[i] : i \in 1..Len(seq)}

RECURSIVE Distinct(_)
\* the elements of seq in order of first occurrence
Distinct(seq) ==
    IF seq = <<>> THEN <<>>
    ELSE LET r == Distinct(SubSeq(seq, 1, Len(seq) - 1))
             x == seq[Len(seq)]
         IN IF x \in Range(r) THEN r ELSE Append(r, x)

Occurrences(seq, x) == Cardinality({i \in 1..Len(seq) : seq[i] = x})

\* seq with x inserted behind the last element whose count is at least x's
RECURSIVE InsertByCount(_, _, _)
InsertByCount(sorted, x, all) ==
    IF sorted = <<>> THEN <<x>>
    ELSE IF Occurrences(all, Head(sorted)) >= Occurrences(all, x)
    THEN <<Head(sorted)>> \o InsertByCount(Tail(sorted), x, all)
    ELSE <<x>> \o sorted

RECURSIVE SortByCount(_, _)
SortByCount(ds, all) ==
    IF ds = <<>> THEN <<>>
    ELSE InsertByCount(SortByCount(SubSeq(ds, 1, Len(ds) - 1), all), ds[Len(ds)], all)

\* word_freq.most_common(50)
MostCommonLimit == 50

\* Counter(words).most_common(k): by descending count, ties in order of
\* first occurrence (the sort is stable)
most_common(words, k) ==
    LET sorted == SortByCount(Distinct(words), words)
    IN SubSeq(sorted, 1, IF Len(sorted) < k THEN Len(sorted) ELSE k)

DistractorStopWords == {"the", "and", "for", "with", "this", "that", "which"}

\* the loop of lines 752-759 over the remaining most common words
RECURSIVE ContextCandidates(_, _, _, _)
ContextCandidates(ws, acc, answer_lower, num_choices) ==
    IF ws = <<>> THEN acc
    ELSE LET word == Head(ws)
             word_lower == lower(word)
         IN IF word_lower # answer_lower /\ Len(word) > 3
               /\ word_lower \notin DistractorStopWords
            THEN LET acc2 == acc \cup {word}
                 IN IF Cardinality(acc2) >= num_choices * 3
                    THEN acc2
                    ELSE ContextCandidates(Tail(ws), acc2, answer_lower, num_choices)
            ELSE ContextCandidates(Tail(ws), acc, answer_lower, num_choices)

topic_distractors ==
    << <<"testing", <<"development", "debugging", "quality assurance",
                      "verification", "validation">> >>,
       <<"date", <<"yesterday", "tomorrow", "next week", "last month",
                   "next meeting">> >>,
       <<"developer", <<"tester", "designer", "manager", "analyst",
                        "architect">> >>,
       <<"white box", <<"black box", "gray box", "unit testing",
                        "integration testing", "system testing">> >> >>

\* the inner loop of lines 774-778 over the remaining terms of one topic
RECURSIVE AddTerms(_, _, _)
AddTerms(terms, acc, num_choices) ==
    IF terms = <<>> THEN acc
    ELSE LET acc2 == acc \cup {Head(terms)}
         IN IF Cardinality(acc2) >= num_choices * 4
            THEN acc2
            ELSE AddTerms(Tail(terms), acc2, num_choices)

\* lines 772-778 with the test `topic in answer_lower` of line 773 left out
RECURSIVE AddTopicsWordsOnly(_, _, _, _)
AddTopicsWordsOnly(topics, acc, answer_lower, num_choices) ==
    IF topics = <<>> THEN acc
    ELSE LET topic == Head(topics)[1]
             terms == Head(topics)[2]
             hit == \E word \in acc : contains(word, topic)
             acc2 == IF hit THEN AddTerms(terms, acc, num_choices) ELSE acc
         IN AddTopicsWordsOnly(Tail(topics), acc2, answer_lower, num_choices)

\* the loop of lines 772-778 over the remaining topics
RECURSIVE AddTopics(_, _, _, _)
AddTopics(topics, acc, answer_lower, num_choices) ==
    IF topics = <<>> THEN acc
    ELSE LET topic == Head(topics)[1]
             terms == Head(topics)[2]
             hit == contains(answer_lower, topic)
                    \/ \E word \in acc : contains(word, topic)
             acc2 == IF hit THEN AddTerms(terms, acc, num_choices) ELSE acc
         IN AddTopics(Tail(topics), acc2, answer_lower, num_choices)

\* answer_lower of lines 733-740
AnswerLower(ans) == lower(StripTrailingPunct(strip(ans)))

\* the set `distractors` when line 762 is reached
ContextWords(ans, num_choices, ctx) ==
    IF ctx # ""
    THEN ContextCandidates(most_common(AlphaWords(ctx), MostCommonLimit),
                           {}, AnswerLower(ans), num_choices)
    ELSE {}

\* the set `distractors` when line 780 is reached
DistractorPool(ans, num_choices, ctx) ==
    AddTopics(topic_distractors, ContextWords(ans, num_choices, ctx),
              AnswerLower(ans), num_choices)

\* lines 781-790 over the iteration order `order` of the set
RECURSIVE FormatDistractors(_, _)
FormatDistractors(order, ans) ==
    IF order = <<>> THEN <<>>
    ELSE LET distractor_clean == strip(StripTrailingPunct(Head(order)))
             rest == FormatDistractors(Tail(order), ans)
         IN IF distractor_clean # "" /\ lower(distractor_clean) # AnswerLower(ans)
            THEN IF isupper(Ch(strip(ans), 1))
                 THEN <<capitalize(distractor_clean)>> \o rest
                 ELSE <<lower(distractor_clean)>> \o rest
            ELSE rest

\* lines 793-798: drop later entries equal to an earlier one ignoring case
RECURSIVE UniqueLower(_)
UniqueLower(seq) ==
    IF seq = <<>> THEN <<>>
    ELSE LET r == UniqueLower(SubSeq(seq, 1, Len(seq) - 1))
             x == seq[Len(seq)]
         IN IF lower(x) \in {lower(y) : y \in Range(r)} THEN r ELSE Append(r, x)

Min(a, b) == IF a < b THEN a ELSE b

Prefix(seq, k) == SubSeq(seq, 1, Min(Len(seq), IF k < 0 THEN 0 ELSE k))

\* the sequences list(S)[:k] can be: a set has no defined iteration order
RECURSIVE ListPrefixes(_, _)
ListPrefixes(S, k) ==
    IF k <= 0 \/ S = {} THEN {<<>>}
    ELSE UNION {{<<x>> \o t : t \in ListPrefixes(S \ {x}, k - 1)} : x \in S}

\* the result of generate_distractors when the set iterates in the order
\* whose first num_choices * 2 elements are `order`
distractors_for_order(ans, num_choices, order) ==
    Prefix(UniqueLower(FormatDistractors(order, ans)), num_choices)

\* every result generate_distractors(answer, num_choices, context) can return
generate_distractors(ans, num_choices, ctx) ==
    IF strip(ans) = "" THEN {<<>>}
    ELSE {distractors_for_order(ans, num_choices, order) :
            order \in ListPrefixes(DistractorPool(ans, num_choices, ctx),
                                   num_choices * 2)}

---------------------------------------------------------------------------
(* generate_content_based_fallback, src/app/routes.py:802-860 *)

FallbackStopWords == {"the", "and", "for", "with", "this", "that", "which", "what"}

\* term_counts.most_common(8)
KeyTermLimit == 8

\* key_terms of lines 804-812
key_terms(ctx) ==
    LET words == AlphaWords(lower(ctx))
        IsKey(word) == word \notin FallbackStopWords /\ Len(word) > 3
        found == SelectSeq(words, IsKey)
    IN IF found = <<>>
       THEN <<"content", "topic", "subject", "information">>
       ELSE most_common(found, KeyTermLimit)

\* question_templates, each split around "{term}"
question_templates ==
    << <<"What is the significance of ", "?">>,
       <<"How does ", " contribute?">>,
       <<"What role does ", " play?">>,
       <<"Why is ", " important?">> >>

FallbackOptions ==
    <<"Key element discussed", "Important role", "Central to topic", "Provides context">>

\* the question of loop index i (from 0) when random.choice picks template t
FallbackQuestion(ctx, i, t) ==
    LET terms == key_terms(ctx)
        term == terms[(i % Len(terms)) + 1]
    IN [type |-> "MCQ",
        question |-> question_templates[t][1] \o capitalize(term)
                       \o question_templates[t][2],
        options |-> FallbackOptions,
        answer |-> "Key element discussed"]

\* range(num_questions - 1): line 822 with its bound one short
LoopCountShort(n) == IF n < 1 THEN 0 ELSE n - 1

\* range(num_questions)
LoopCount(n) == IF n < 0 THEN 0 ELSE n

\* every list the fallback can return: one random template per question
generate_content_based_fallback(ctx, n) ==
    {[i \in 1..LoopCount(n) |-> FallbackQuestion(ctx, i - 1, pick[i])] :
        pick \in [1..LoopCount(n) -> 1..Len(question_templates)]}

---------------------------------------------------------------------------
(* Chunking, src/app/routes.py:877-884 *)

\* end of the match of \n\s*\n that starts at i (0 if none starts there)
ParagraphSepEnd(s, i) ==
    LET Newline(k) == Ch(s, k) = "\n"
        j == LastIndex(i + 1, SkipSpace(s, i + 1) - 1, Newline)
    IN IF Ch(s, i) = "\n" /\ j > i THEN j ELSE 0

\* re.split(r'\n\s*\n', s) from position i on
RECURSIVE SplitParagraphs(_, _)
SplitParagraphs(s, i) ==
    LET Sep(k) == ParagraphSepEnd(s, k) > 0
        b == FirstIndex(i, Len(s), Sep)
    IN IF b > Len(s) THEN <<From(s, i)>>
       ELSE <<SubSeq(s, i, b - 1)>> \o SplitParagraphs(s, ParagraphSepEnd(s, b) + 1)

\* re.split(r'(?<=[.!?])\s+', s) from position i on
RECURSIVE SplitSentences(_, _)
SplitSentences(s, i) ==
    LET Sep(k) == isspace(Ch(s, k)) /\ k > 1 /\ Ch(s, k - 1) \in {".", "!", "?"}
        b == FirstIndex(i, Len(s), Sep)
    IN IF b > Len(s) THEN <<From(s, i)>>
       ELSE <<SubSeq(s, i, b - 1)>> \o SplitSentences(s, SkipSpace(s, b))

StripAll(seq) == [i \in 1..Len(seq) |-> strip(seq[i])]

\* minimum word counts of lines 879 and 884 (a chunk needs more words than these)
ParagraphMinWords == 10

SentenceMinWords == 8

\* lines 878-879 without the sentence re-split of lines 882-884
make_chunksParagraphsOnly(ctx) ==
    LET LongParagraph(c) == Len(split(c)) > ParagraphMinWords
    IN StripAll(SelectSeq(SplitParagraphs(ctx, 1), LongParagraph))

\* chunks when line 886 is reached
make_chunks(ctx) ==
    LET LongParagraph(c) == Len(split(c)) > ParagraphMinWords
        LongSentence(c) == Len(split(c)) > SentenceMinWords
        paragraphs == StripAll(SelectSeq(SplitParagraphs(ctx, 1), LongParagraph))
    IN IF paragraphs # <<>>
       THEN paragraphs
       ELSE StripAll(SelectSeq(SplitSentences(ctx, 1), LongSentence))

---------------------------------------------------------------------------
(* The /generate handler generate_questions, src/app/routes.py:862-1023 *)

\* range(num_questions * 5)
AttemptFactor == 5

\* line 921: fewer words than this are rejected
MinQuestionWords == 4

\* line 922: more words than this are rejected
MaxValidQuestionWords == 20

\* line 923: more "?" than this are rejected
MaxQuestionMarks == 2

\* line 946: confidence < 0.1 is rejected; scores are in hundredths
ConfidenceThreshold == 10

\* line 947: more words than this are rejected
MaxAnswerWords == 8

\* line 953: generate_distractors(answer, 3, context)
NumDistractors == 3

\* lines 960 and 976: four options
NumOptions == 4

\* line 995: context[:500]
StoredContextLen == 500

\* lines 920-925 with the lower word bound of line 921 one less
QuestionRejectedMin3(q, used) ==
    \/ ~endswith(q, "?")
    \/ Len(split(q)) < MinQuestionWords - 1
    \/ Len(split(q)) > MaxValidQuestionWords
    \/ count(q, "?") > MaxQuestionMarks
    \/ \E word \in {"example:", "labels:", "step:"} : contains(lower(q), word)
    \/ q \in used

\* the condition of lines 920-925
QuestionRejected(q, used) ==
    \/ ~endswith(q, "?")
    \/ Len(split(q)) < MinQuestionWords
    \/ Len(split(q)) > MaxValidQuestionWords
    \/ count(q, "?") > MaxQuestionMarks
    \/ \E word \in {"example:", "labels:", "step:"} : contains(lower(q), word)
    \/ q \in used

\* re.sub(r'^[^a-zA-Z0-9]*|[^a-zA-Z0-9]*$', '', s)
StripNonAlnum(s) ==
    LET Alnum(k) == isalnum(Ch(s, k))
    IN SubSeq(s, FirstIndex(1, Len(s), Alnum), LastIndex(1, Len(s), Alnum))

\* answer of lines 936-940
CleanAnswer(raw) == StripNonAlnum(strip(raw))

\* lines 945-948 without the confidence test of line 946
AnswerRejectedAnyConfidence(ans, confidence) ==
    \/ ans = ""
    \/ Len(split(ans)) > MaxAnswerWords
    \/ lower(ans) \in {"yes", "no", "true", "false"}

\* the condition of lines 945-948
AnswerRejected(ans, confidence) ==
    \/ ans = ""
    \/ confidence < ConfidenceThreshold
    \/ Len(split(ans)) > MaxAnswerWords
    \/ lower(ans) \in {"yes", "no", "true", "false"}

\* options of lines 956-957
BuildOptions(ans, distractors) ==
    LET Keep(d) == d # "" /\ lower(d) # lower(ans)
    IN Distinct(<<ans>> \o SelectSeq(distractors, Keep))

\* f"Option {chr(65 + len(options))}"
Placeholder(opts) == "Option " \o Ch(UpperLetters, Len(opts) + 1)

\* orders random.shuffle can leave a list in: the rotations of the list, so
\* that every element can land at every position
Shuffles(opts) ==
    {[i \in 1..Len(opts) |-> opts[((i + r - 1) % Len(opts)) + 1]] : r \in 1..Len(opts)}

MCQ(q, opts, ans) == [type |-> "MCQ", question |-> q, options |-> opts, answer |-> ans]

Response(status, source, error, qs) ==
    [status |-> status, source |-> source, error |-> error, questions |-> qs]

NoResponse == Response(0, "", "", <<>>)

\* the session with the keys of `new` set to its values
SessionWith(sess, new) ==
    [k \in DOMAIN sess \cup DOMAIN new |-> IF k \in DOMAIN new THEN new[k] ELSE sess[k]]

---------------------------------------------------------------------------
(* Inputs: the request bodies, and what the two pipelines may answer *)

\* largest num_questions requested
MaxCount == 2

TextPython == "Python is a programming language. It was created by Guido van Rossum."

TextRome == "Bob the cat sat on the mat and the dog ran to Rome"

TextPlain == "a cat sat on a mat and a dog ran to a hut"

TextZoo == "Ann met Bob and Tom at the zoo in Rome.\n\nOslo or Lima."

TextFail == "one two three four five six seven eight nine ten eleven"

TextHello == "hello"

TextCats == "Cats purr. Cats sleep. Dogs bark loudly. "

TextShort == "a b c"

\* one sentence of exactly eight words
TextEight == "One two three four five six seven eight."

Contexts ==
    {TextPython, TextRome, TextPlain, TextZoo, TextFail, TextHello, TextCats, TextShort,
     TextEight, "", " \n "}

Requests == {[context |-> c, num_questions |-> n] : c \in Contexts, n \in 0..MaxCount}

\* generated_text values qg_pipeline may return for a context
QGOutputs(ctx) ==
    CASE ctx = TextPython -> {"Who created <sep> Python?"}
      [] ctx = TextRome -> {"what sat on the mat",
                            "What sat on the mat? Who ran to Rome?",
                            "who who ran to Rome?",
                            "cat?"}
      [] ctx = TextPlain -> {"what sat on a mat?", " Who ran to a hut?"}
      [] ctx = TextZoo -> {"who met <sep> Bob and Tom?",
                           "Who met  Bob and Tom? Where?",
                           "where?"}
      [] OTHER -> {}

\* whether qg_pipeline may raise for a context (TextFail: it always does)
QGMayRaise(ctx) == ctx # TextPython

\* (answer, score in hundredths) pairs qa_pipeline may return for a context
QAOutputs(ctx) ==
    CASE ctx = TextPython -> {<<"Guido van Rossum", 90>>}
      [] ctx = TextRome -> {<<"cat", 90>>, <<"Rome", 90>>, <<"the dog", 5>>}
      [] ctx = TextPlain -> {<<"cat", 90>>, <<"Option B", 90>>, <<"", 0>>}
      [] ctx = TextZoo -> {<<"Ann", 90>>, <<"Rome.", 90>>, <<"yes", 90>>}
      [] OTHER -> {}

\* whether qa_pipeline may raise for a context
QAMayRaise(ctx) == ctx # TextPython

\* a quiz an earlier /generate request of this session has stored
EarlierQuestions ==
    <<MCQ("What sat on a mat?", <<"Option C", "cat", "Option B", "Option D">>, "cat")>>

EarlierQuizRow ==
    [id |-> 1, user_id |-> 1, title |-> "Generated Quiz", context |-> TextPlain]

EarlierQuestionRows ==
    <<[quiz_id |-> 1, question_text |-> "What sat on a mat?",
       options |-> <<"Option C", "cat", "Option B", "Option D">>, answer |-> "cat"]>>

---------------------------------------------------------------------------
(* The blueprint application: data of src/app/models/database.py and of the
   Flask session *)

\* a dict with no key, and dict operations
EmptyDict == <<>>

Put(d, k, v) == (k :> v) @@ d

Pop(d, keys) == [k \in DOMAIN d \ keys |-> d[k]]

Get(d, k, default) == IF k \in DOMAIN d THEN d[k] ELSE default

\* werkzeug's generate_password_hash and check_password_hash
generate_password_hash(password) == <<"hash", password>>

check_password_hash(password_hash, password) ==
    password_hash = generate_password_hash(password)

\* json.dumps and json.loads
json_dumps(value) == <<"json", value>>

json_loads(text) == text[2]

\* flash(message, category): session["_flashes"] holds the pending messages;
\* the model keeps the category of the last one
flash(s, message, category) == Put(s, "_flashes", category)

\* the browsers, each holding its own session cookie
Clients == {"c1"}

\* largest id AUTOINCREMENT gives in users, quizzes and quiz_attempts,
\* the last second of the clock, and the number of requests served
MaxUsers == 2

MaxQuizzes == 2

MaxAttempts == 2

MaxTime == 1

MaxRequests == 5

\* the row create_default_admin inserts
DefaultAdmin ==
    [id |-> 1, username |-> "admin", email |-> "admin@quizgen.com",
     password_hash |-> generate_password_hash("admin123"), role |-> "admin"]

\* the database after init_db
InitialDb ==
    [users |-> {DefaultAdmin}, quizzes |-> {}, questions |-> {},
     quiz_attempts |-> {},
     sqlite_sequence |-> [users |-> 1, quizzes |-> 0, questions |-> 0,
                          quiz_attempts |-> 0]]

NoRequest == [route |-> "none"]

app_idle ==
    /\ db = InitialDb
    /\ sessions = [c \in Clients |-> EmptyDict]
    /\ now = 0
    /\ http_request = NoRequest /\ http_response = NoResponse
    /\ executed = {} /\ served = 0

---------------------------------------------------------------------------
(* State machine of one request *)

\* the function f with every value computed
Table(f) == f @@ <<>>

\* line 866 with the line-866 strip left out
RequestContextRaw(req) == req.context

\* line 866: context = data.get("context", "").strip()
RequestContext(req) == strip(req.context)

\* the contexts a handler can hold after line 866
StrippedContexts == {RequestContext(req) : req \in Requests}

\* line 913: clean_question(generated_text.strip()) of each text qg_pipeline
\* may return
cleaned ==
    Table([raw \in UNION {QGOutputs(c) : c \in StrippedContexts} |->
              clean_question(strip(raw))])

\* line 962: re.findall(r'\b[A-Z][a-z]+\b', context) of each context
context_words == Table([c \in StrippedContexts |-> CapitalizedWords(c)])


cq_idle == cq_raw = "" /\ cq_once = "" /\ cq_twice = "" /\ cq_pc = "off"

gd_idle ==
    /\ gd_answer = "" /\ gd_count = 0 /\ gd_context = ""
    /\ gd_first = <<>> /\ gd_second = <<>> /\ gd_pc = "off"

fb_idle ==
    /\ fb_context = "" /\ fb_count = 0
    /\ fb_first = <<>> /\ fb_second = <<>> /\ fb_pc = "off"

run_idle ==
    /\ request = [context |-> "", num_questions |-> 0]
    /\ context = "" /\ num_questions = 0 /\ pc = "off" /\ chunks = <<>>
    /\ attempt = 0 /\ response_questions = <<>> /\ used_questions = {}
    /\ question_text = "" /\ answer = "" /\ answer_score = 0 /\ options = <<>>
    /\ qg_calls = 0 /\ qa_calls = 0
    /\ response = NoResponse /\ quizzes = <<>> /\ questions = <<>>
    /\ session = [user_id |-> 1]

\* A logged-in session (login_required lets the handler run) posts a body;
\* the session is fresh or already holds an earlier generated quiz.
Init ==
    /\ request \in Requests
    /\ context = "" /\ num_questions = 0 /\ pc = "start" /\ chunks = <<>>
    /\ attempt = 0 /\ response_questions = <<>> /\ used_questions = {}
    /\ question_text = "" /\ answer = "" /\ answer_score = 0 /\ options = <<>>
    /\ qg_calls = 0 /\ qa_calls = 0
    /\ response = NoResponse
    /\ \/ /\ quizzes = <<>> /\ questions = <<>>
          /\ session = [user_id |-> 1]
       \/ /\ quizzes = <<EarlierQuizRow>> /\ questions = EarlierQuestionRows
          /\ session = [user_id |-> 1, current_quiz |-> EarlierQuestions,
                        current_quiz_id |-> 1]
    /\ cq_idle /\ gd_idle /\ fb_idle /\ app_idle

other_vars == <<cq_vars, gd_vars, fb_vars, app_vars>>

db_vars == <<quizzes, questions, session>>

attempt_vars == <<question_text, answer, answer_score, options>>

pipeline_vars == <<qg_calls, qa_calls>>

\* lines 866-875: empty context, 400
RequestEmpty ==
    /\ pc = "start"
    /\ \E ctx \in {RequestContext(request)} :
          /\ ctx = ""
          /\ context' = ctx
    /\ num_questions' = request.num_questions
    /\ response' = Response(400, "", "Empty context", <<>>)
    /\ pc' = "done"
    /\ UNCHANGED <<request, chunks, attempt, response_questions, used_questions,
                   attempt_vars, pipeline_vars, db_vars, other_vars>>

\* lines 877-891: no usable chunk, the fallback answers
RequestNoChunks ==
    /\ pc = "start"
    /\ \E ctx \in {RequestContext(request)} :
          /\ ctx # ""
          /\ make_chunks(ctx) = <<>>
          /\ context' = ctx
          /\ \E qs \in generate_content_based_fallback(ctx, request.num_questions) :
                response' = Response(200, "CONTENT_BASED", "", qs)
    /\ num_questions' = request.num_questions
    /\ chunks' = <<>>
    /\ pc' = "done"
    /\ UNCHANGED <<request, attempt, response_questions, used_questions,
                   attempt_vars, pipeline_vars, db_vars, other_vars>>

\* lines 877-894: chunks found, the attempt loop starts
RequestChunks ==
    /\ pc = "start"
    /\ \E ctx \in {RequestContext(request)} :
          /\ ctx # ""
          /\ context' = ctx
          /\ \E cs \in {make_chunks(ctx)} :
                /\ cs # <<>>
                /\ chunks' = cs
    /\ num_questions' = request.num_questions
    /\ pc' = "loop"
    /\ UNCHANGED <<request, attempt, response_questions, used_questions,
                   attempt_vars, pipeline_vars, response, db_vars, other_vars>>

\* the loop without the break of lines 897-898
LoopNeverBreaks ==
    /\ pc = "loop"
    /\ attempt < num_questions * AttemptFactor

\* lines 896-898: another iteration of the loop starts
LoopContinues ==
    /\ pc = "loop"
    /\ attempt < num_questions * AttemptFactor
    /\ Len(response_questions) < num_questions

\* lines 900-913: qg_pipeline raises, the except clause continues
QGRaises ==
    /\ LoopContinues
    /\ QGMayRaise(context)
    /\ \E chunk \in Range(chunks) : TRUE
    /\ attempt' = attempt + 1
    /\ qg_calls' = qg_calls + 1
    /\ UNCHANGED <<request, context, num_questions, pc, chunks, response_questions,
                   used_questions, attempt_vars, qa_calls, response,
                   db_vars, other_vars>>

\* lines 913-927: the cleaned question fails validation
QuestionSkipped ==
    /\ LoopContinues
    /\ \E chunk \in Range(chunks), raw \in QGOutputs(context) :
          QuestionRejected(cleaned[raw], used_questions)
    /\ attempt' = attempt + 1
    /\ qg_calls' = qg_calls + 1
    /\ UNCHANGED <<request, context, num_questions, pc, chunks, response_questions,
                   used_questions, attempt_vars, qa_calls, response,
                   db_vars, other_vars>>

\* the exception of qa_pipeline leaves the loop and answers 500
QARaisesAborts ==
    /\ LoopContinues
    /\ QAMayRaise(context)
    /\ \E chunk \in Range(chunks), raw \in QGOutputs(context) :
          \E q \in {cleaned[raw]} :
             /\ ~QuestionRejected(q, used_questions)
             /\ used_questions' = used_questions \cup {q}
    /\ attempt' = attempt + 1
    /\ qg_calls' = qg_calls + 1
    /\ qa_calls' = qa_calls + 1
    /\ pc' = "done"
    /\ response' = Response(500, "", "Question generation failed", <<>>)
    /\ UNCHANGED <<request, context, num_questions, chunks, response_questions,
                   attempt_vars, db_vars, other_vars>>

\* lines 929-935: the question is recorded as used, then qa_pipeline raises
QARaises ==
    /\ LoopContinues
    /\ QAMayRaise(context)
    /\ \E chunk \in Range(chunks), raw \in QGOutputs(context) :
          \E q \in {cleaned[raw]} :
             /\ ~QuestionRejected(q, used_questions)
             /\ used_questions' = used_questions \cup {q}
    /\ attempt' = attempt + 1
    /\ qg_calls' = qg_calls + 1
    /\ qa_calls' = qa_calls + 1
    /\ UNCHANGED <<request, context, num_questions, pc, chunks, response_questions,
                   attempt_vars, response, db_vars, other_vars>>

\* lines 929-950: the question is recorded as used, the answer fails validation
AnswerSkipped ==
    /\ LoopContinues
    /\ \E chunk \in Range(chunks), raw \in QGOutputs(context),
          res \in QAOutputs(context) :
          \E q \in {cleaned[raw]} :
             /\ ~QuestionRejected(q, used_questions)
             /\ AnswerRejected(CleanAnswer(res[1]), res[2])
             /\ used_questions' = used_questions \cup {q}
    /\ attempt' = attempt + 1
    /\ qg_calls' = qg_calls + 1
    /\ qa_calls' = qa_calls + 1
    /\ UNCHANGED <<request, context, num_questions, pc, chunks, response_questions,
                   attempt_vars, response, db_vars, other_vars>>

\* lines 929-957: question and answer pass, the option list is started
OptionsStarted ==
    /\ LoopContinues
    /\ \E chunk \in Range(chunks), raw \in QGOutputs(context),
          res \in QAOutputs(context) :
          \E q \in {cleaned[raw]}, ans \in {CleanAnswer(res[1])} :
             /\ ~QuestionRejected(q, used_questions)
             /\ ~AnswerRejected(ans, res[2])
             /\ used_questions' = used_questions \cup {q}
             /\ question_text' = q
             /\ answer' = ans
             /\ answer_score' = res[2]
             /\ \E distractors \in generate_distractors(ans, NumDistractors, context) :
                   options' = BuildOptions(ans, distractors)
    /\ attempt' = attempt + 1
    /\ qg_calls' = qg_calls + 1
    /\ qa_calls' = qa_calls + 1
    /\ pc' = "pad"
    /\ UNCHANGED <<request, context, num_questions, chunks, response_questions,
                   response, db_vars, other_vars>>

\* lines 960-966: one pass of the while loop when the context has capitalized
\* words; the list grows only if the chosen word is new
PadWithContextWord ==
    /\ pc = "pad"
    /\ Len(options) < NumOptions
    /\ \E new_opt \in Range(context_words[context]) :
          options' = IF new_opt \notin Range(options) /\ new_opt # answer
                     THEN Append(options, new_opt)
                     ELSE options
    /\ UNCHANGED <<request, context, num_questions, pc, chunks, attempt,
                   response_questions, used_questions, question_text, answer,
                   answer_score,
                   pipeline_vars, response, db_vars, other_vars>>

\* lines 960-968: one pass of the while loop when it has none
PadWithPlaceholder ==
    /\ pc = "pad"
    /\ Len(options) < NumOptions
    /\ context_words[context] = <<>>
    /\ options' = Append(options, Placeholder(options))
    /\ UNCHANGED <<request, context, num_questions, pc, chunks, attempt,
                   response_questions, used_questions, question_text, answer,
                   answer_score,
                   pipeline_vars, response, db_vars, other_vars>>

\* lines 970-978: the while loop is over; shuffle and append
AppendQuestion ==
    /\ pc = "pad"
    /\ Len(options) >= NumOptions
    /\ \E shuffled \in Shuffles(options) :
          response_questions' =
              Append(response_questions,
                     MCQ(question_text, Prefix(shuffled, NumOptions), answer))
    /\ pc' = "loop"
    /\ question_text' = "" /\ answer' = "" /\ answer_score' = 0 /\ options' = <<>>
    /\ UNCHANGED <<request, context, num_questions, chunks, attempt, used_questions,
                   pipeline_vars, response, db_vars, other_vars>>

\* lines 984-986: the loop ended with no question, the fallback answers
FinishFallback ==
    /\ pc = "loop"
    /\ ~LoopContinues
    /\ response_questions = <<>>
    /\ \E qs \in generate_content_based_fallback(context, num_questions) :
          response' = Response(200, "CONTENT_BASED", "", qs)
    /\ pc' = "done"
    /\ UNCHANGED <<request, context, num_questions, chunks, attempt,
                   response_questions, used_questions, attempt_vars, pipeline_vars,
                   db_vars, other_vars>>

\* lines 988-1019: the loop ended with questions; store and answer them
FinishStore ==
    /\ pc = "loop"
    /\ ~LoopContinues
    /\ response_questions # <<>>
    /\ LET quiz_id == Len(quizzes) + 1
       IN /\ quizzes' = Append(quizzes,
                               [id |-> quiz_id, user_id |-> session["user_id"],
                                title |-> "Generated Quiz",
                                context |-> Prefix(context, StoredContextLen)])
          /\ questions' = questions \o
                [i \in 1..Len(response_questions) |->
                    [quiz_id |-> quiz_id,
                     question_text |-> response_questions[i].question,
                     options |-> response_questions[i].options,
                     answer |-> response_questions[i].answer]]
          /\ session' = SessionWith(session,
                                    [current_quiz |-> response_questions,
                                     current_quiz_id |-> quiz_id])
    /\ response' = Response(200, "AI", "", response_questions)
    /\ pc' = "done"
    /\ UNCHANGED <<request, context, num_questions, chunks, attempt,
                   response_questions, used_questions, attempt_vars, pipeline_vars,
                   other_vars>>

Next ==
    \/ RequestEmpty
    \/ RequestNoChunks
    \/ RequestChunks
    \/ QGRaises
    \/ QuestionSkipped
    \/ QARaises
    \/ AnswerSkipped
    \/ OptionsStarted
    \/ PadWithContextWord
    \/ PadWithPlaceholder
    \/ AppendQuestion
    \/ FinishFallback
    \/ FinishStore

Spec == Init /\ [][Next]_vars

---------------------------------------------------------------------------
(* clean_question applied to its own result *)

\* longest raw text built from RawAlphabet
MaxRawLen == 4

RawAlphabet == {"a", "A", " ", "?", "<", ">"}

RECURSIVE StringsUpTo(_)
StringsUpTo(n) ==
    IF n = 0 THEN {""}
    ELSE {s \o c : s \in StringsUpTo(n - 1), c \in RawAlphabet \cup {""}}

\* a raw text of more than 15 words, one with a repeated phrase, one with
\* a tag between two equal words
LongRaw == "what did the cat the dog and the hen do on the mat in the hut at noon"

RawQuestions ==
    StringsUpTo(MaxRawLen)
        \cup UNION {QGOutputs(c) : c \in Contexts}
        \cup {LongRaw, "who ran who ran to Rome", "is <b>is</b> it so?"}

clean_others == <<run_vars, gd_vars, fb_vars, app_vars>>

InitClean ==
    /\ run_idle /\ gd_idle /\ fb_idle /\ app_idle
    /\ cq_raw \in RawQuestions
    /\ cq_once = "" /\ cq_twice = "" /\ cq_pc = "raw"

\* cleaned = clean_question(raw)
CleanOnce ==
    /\ cq_pc = "raw"
    /\ cq_once' = clean_question(cq_raw)
    /\ cq_pc' = "once"
    /\ UNCHANGED <<cq_raw, cq_twice, clean_others>>

\* clean_question(cleaned)
CleanTwice ==
    /\ cq_pc = "once"
    /\ cq_twice' = clean_question(cq_once)
    /\ cq_pc' = "twice"
    /\ UNCHANGED <<cq_raw, cq_once, clean_others>>

NextClean ==
    \/ CleanOnce
    \/ CleanTwice

SpecClean == InitClean /\ [][NextClean]_vars

---------------------------------------------------------------------------
(* generate_distractors called twice with the same arguments. The order in
   which list(distractors) walks the set of strings follows the string
   hashes, which the interpreter salts anew at each start, so each call may
   see any order. *)

\* the source text of Scenario 4
TextTesting == "testing is important for quality"

\* (answer, context) pairs of the calls
DistractorCalls ==
    ({"cat", "Rome", "Ann", "Tom.", ""} \X {TextRome, TextZoo, TextPlain, ""})
        \cup {<<"testing", "">>, <<"Release date", TextPlain>>,
              <<"testing", TextTesting>>, <<"Testing", "">>}

\* a source text whose words match two more topic keywords
TextRelease == "developers update testing"

\* calls that match several topics; their candidate set is large
TopicCalls == {<<"testing", TextRelease>>}

\* the calls with their num_choices
DistractorInputs ==
    (DistractorCalls \X (0..NumDistractors))
        \cup (TopicCalls \X (0..(NumDistractors - 1)))

\* every result of each call, by (answer, context) and num_choices
distractor_results ==
    Table([call \in DistractorInputs |->
              generate_distractors(call[1][1], call[2], call[1][2])])

distractor_others == <<run_vars, cq_vars, fb_vars, app_vars>>

InitDistractors ==
    /\ run_idle /\ cq_idle /\ fb_idle /\ app_idle
    /\ \E call \in DistractorInputs :
          gd_answer = call[1][1] /\ gd_context = call[1][2] /\ gd_count = call[2]
    /\ gd_first = <<>> /\ gd_second = <<>> /\ gd_pc = "first"

FirstCall ==
    /\ gd_pc = "first"
    /\ gd_first' \in distractor_results[<<<<gd_answer, gd_context>>, gd_count>>]
    /\ gd_pc' = "second"
    /\ UNCHANGED <<gd_answer, gd_count, gd_context, gd_second, distractor_others>>

SecondCall ==
    /\ gd_pc = "second"
    /\ gd_second' \in distractor_results[<<<<gd_answer, gd_context>>, gd_count>>]
    /\ gd_pc' = "done"
    /\ UNCHANGED <<gd_answer, gd_count, gd_context, gd_first, distractor_others>>

NextDistractors ==
    \/ FirstCall
    \/ SecondCall

SpecDistractors == InitDistractors /\ [][NextDistractors]_vars

---------------------------------------------------------------------------
(* generate_content_based_fallback called twice with the same arguments;
   each call draws its templates with random.choice *)

fallback_others == <<run_vars, cq_vars, gd_vars, app_vars>>

InitFallback ==
    /\ run_idle /\ cq_idle /\ gd_idle /\ app_idle
    /\ fb_context \in StrippedContexts \ {""}
    /\ fb_count \in 0..MaxCount
    /\ fb_first = <<>> /\ fb_second = <<>> /\ fb_pc = "first"

FirstFallback ==
    /\ fb_pc = "first"
    /\ fb_first' \in generate_content_based_fallback(fb_context, fb_count)
    /\ fb_pc' = "second"
    /\ UNCHANGED <<fb_context, fb_count, fb_second, fallback_others>>

SecondFallback ==
    /\ fb_pc = "second"
    /\ fb_second' \in generate_content_based_fallback(fb_context, fb_count)
    /\ fb_pc' = "done"
    /\ UNCHANGED <<fb_context, fb_count, fb_first, fallback_others>>

NextFallback ==
    \/ FirstFallback
    \/ SecondFallback

SpecFallback == InitFallback /\ [][NextFallback]_vars

---------------------------------------------------------------------------
(* The blueprint application: src/app/routes/utils.py and auth.py *)

\* where $ can match: at the end, or before a final newline
EndAnchors(s) ==
    {Len(s)} \cup (IF endswith(s, "\n") THEN {Len(s) - 1} ELSE {})

\* the characters of [\w\.-]
isaddress(c) == isword(c) \/ c \in {".", "-"}

\* re.match(r"^[A-Za-z0-9_]{3,}$", username)
is_valid_username(username) ==
    \E n \in EndAnchors(username) :
        n >= 3 /\ \A i \in 1..n : isword(Ch(username, i))

\* re.match(r"^[\w\.-]+@[\w\.-]+\.\w+$", email)
is_valid_email(email) ==
    \E n \in EndAnchors(email) : \E at \in 2..n : \E dot \in (at + 2)..(n - 1) :
        /\ Ch(email, at) = "@" /\ Ch(email, dot) = "."
        /\ \A i \in 1..(at - 1) : isaddress(Ch(email, i))
        /\ \A i \in (at + 1)..(dot - 1) : isaddress(Ch(email, i))
        /\ \A i \in (dot + 1)..n : isword(Ch(email, i))

SpecialSet == CharsOf("!@#$%^&*(),.?\":{}|<>")

MinPasswordLen == 8

is_valid_password(password) ==
    /\ Len(password) >= MinPasswordLen
    /\ \E i \in 1..Len(password) : isupper(Ch(password, i))
    /\ \E i \in 1..Len(password) : islower(Ch(password, i))
    /\ \E i \in 1..Len(password) : Ch(password, i) \in DigitSet
    /\ \E i \in 1..Len(password) : Ch(password, i) \in SpecialSet

\* responses
redirect(endpoint) == [status |-> 302, location |-> endpoint]

jsonify(body, status) == [status |-> status, json |-> body]

page(template, error) == [status |-> 200, template |-> template, error |-> error]

\* The templates are not among the sources; a template that calls
\* get_flashed_messages() removes the pending flashes from the session.
render_template(s) == {s, Pop(s, {"_flashes"})}

app_others == <<run_vars, cq_vars, gd_vars, fb_vars>>

\* the request, its response and the statements it executed are recorded
Answered(req, resp, stmts) ==
    /\ UNCHANGED app_others
    /\ served < MaxRequests
    /\ served' = served + 1
    /\ http_request' = req
    /\ http_response' = resp
    /\ executed' = stmts

\* the session of c becomes s
SessionSet(c, s) == sessions' = [sessions EXCEPT ![c] = s]

\* what a browser may type into the login forms: <<name or email, password>>
LoginForms ==
    {<<"admin", "admin123">>, <<"alice", "Alice#2024">>,
     <<"alice@quiz.io", "Alice#2024">>,
     <<"alice", "admin123">>, <<"", "admin123">>, <<"admin", "">>}

\* and into the registration form: <<username, email, password>>
RegisterForms ==
    {<<"alice", "alice@quiz.io", "Alice#2024">>,
     <<"bob", "alice@quiz.io", "Bobby#2024">>,
     <<"al", "al@quiz.io", "Alice#2024">>,
     <<"bob", "bob@quiz", "Bobby#2024">>,
     <<"bob", "bob@quiz.io", "bobby2024">>,
     <<"bob", "", "Bobby#2024">>}

\* SELECT * FROM users WHERE username=? OR email=?
UsersNamed(username, email) ==
    {u \in db.users : u.username = username \/ u.email = email}

\* the keys login and register put into the session
UserKeys(user) ==
    [k \in {"user_id", "user", "user_email"} |->
        CASE k = "user_id" -> user.id
          [] k = "user" -> user.username
          [] OTHER -> user.email]

login(c) ==
    \/ \E s \in render_template(sessions[c]) :
        /\ SessionSet(c, s)
        /\ Answered([route |-> "login", client |-> c, method |-> "GET"],
                    page("login.html", ""), {})
        /\ UNCHANGED <<db, now>>
    \/ \E form \in LoginForms :
        LET login_id == form[1]
            password == form[2]
            req == [route |-> "login", client |-> c, method |-> "POST"]
        IN IF login_id = "" \/ password = ""
           THEN \E s \in render_template(sessions[c]) :
                /\ SessionSet(c, s)
                /\ Answered(req, page("login.html", "Both fields are required"), {})
                /\ UNCHANGED <<db, now>>
           ELSE IF \E user \in UsersNamed(login_id, login_id) :
                       check_password_hash(user.password_hash, password)
           THEN \E user \in UsersNamed(login_id, login_id) :
                /\ check_password_hash(user.password_hash, password)
                /\ SessionSet(c, UserKeys(user) @@ sessions[c])
                /\ Answered(req, redirect("quiz.dashboard"), {<<"SELECT", "users">>})
                /\ UNCHANGED <<db, now>>
           ELSE \E s \in render_template(sessions[c]) :
                /\ SessionSet(c, s)
                /\ Answered(req, page("login.html", "Invalid login credentials"),
                            {<<"SELECT", "users">>})
                /\ UNCHANGED <<db, now>>

register(c) ==
    \E form \in RegisterForms :
        LET username == form[1]
            email == form[2]
            password == form[3]
            req == [route |-> "register", client |-> c, method |-> "POST"]
            error == IF username = "" \/ email = "" \/ password = ""
                     THEN "All fields are required"
                     ELSE IF ~is_valid_username(username)
                     THEN "Username must be at least 3 characters with only letters, numbers, and underscores"
                     ELSE IF ~is_valid_email(email) THEN "Invalid email format"
                     ELSE IF ~is_valid_password(password)
                     THEN "Password must be 8+ characters with uppercase, lowercase, digit, and special character"
                     ELSE ""
            id == db.sqlite_sequence.users + 1
            user == [id |-> id, username |-> username, email |-> email,
                     password_hash |-> generate_password_hash(password),
                     role |-> "user"]
        IN IF error # ""
           THEN \E s \in render_template(sessions[c]) :
                /\ SessionSet(c, s)
                /\ Answered(req, page("register.html", error), {})
                /\ UNCHANGED <<db, now>>
           ELSE IF UsersNamed(username, email) # {}
           THEN \E s \in render_template(sessions[c]) :
                /\ SessionSet(c, s)
                /\ Answered(req, page("register.html",
                                      "Username or email already registered"),
                            {<<"SELECT", "users">>})
                /\ UNCHANGED <<db, now>>
           ELSE /\ id <= MaxUsers
                /\ db' = [db EXCEPT !.users = @ \cup {user},
                                    !.sqlite_sequence.users = id]
                /\ SessionSet(c, UserKeys(user) @@ sessions[c])
                /\ Answered(req, redirect("quiz.dashboard"),
                            {<<"SELECT", "users">>, <<"INSERT", "users">>})
                /\ UNCHANGED now

admin_login(c) ==
    \E form \in LoginForms :
        LET username == form[1]
            password == form[2]
            req == [route |-> "admin_login", client |-> c, method |-> "POST"]
            admins == {u \in UsersNamed(username, username) : u.role = "admin"}
        IN /\ IF \E user \in admins : check_password_hash(user.password_hash, password)
              THEN \E user \in admins :
                   /\ check_password_hash(user.password_hash, password)
                   /\ SessionSet(c, flash(("user_id" :> user.id) @@ ("user" :> user.username)
                                            @@ ("user_role" :> user.role) @@ sessions[c],
                                          "Admin login successful!", "success"))
                   /\ Answered(req, redirect("admin.admin_dashboard"),
                               {<<"SELECT", "users">>})
              ELSE \E s \in render_template(
                        flash(sessions[c],
                              "Invalid admin credentials or insufficient privileges",
                              "error")) :
                   /\ SessionSet(c, s)
                   /\ Answered(req, page("admin_login.html", ""),
                               {<<"SELECT", "users">>})
           /\ UNCHANGED <<db, now>>

logout(c) ==
    /\ SessionSet(c, flash(EmptyDict, "You have been logged out successfully.", "info"))
    /\ Answered([route |-> "logout", client |-> c], redirect("auth.login"), {})
    /\ UNCHANGED <<db, now>>

---------------------------------------------------------------------------
(* The decorators: src/app/models/database.py:168-175 and
   src/app/routes/admin.py:9-17 *)

\* the wrapped handler runs without the test of line 172
login_requiredUnchecked(c, req, handler) == handler

\* login_required(f): handler is f(*args, **kwargs) for the request req
login_required(c, req, handler) ==
    IF "user_id" \notin DOMAIN sessions[c]
    THEN /\ Answered(req, redirect("auth.login"), {})
         /\ UNCHANGED <<db, sessions, now>>
    ELSE handler

admin_required(c, req, handler) ==
    IF Get(sessions[c], "user_role", "") # "admin"
    THEN /\ SessionSet(c, flash(sessions[c], "Administrator access required", "error"))
         /\ Answered(req, redirect("quiz.dashboard"), {})
         /\ UNCHANGED <<db, now>>
    ELSE handler

---------------------------------------------------------------------------
(* src/app/routes/quiz.py: dashboard, generate, take_quiz, save_attempt *)

\* the rows of a table in rowid order
ById(rows) ==
    LET ids == {r.id : r \in rows}
    IN [i \in 1..Cardinality(ids) |-> CHOOSE r \in rows : r.id = Nth(ids, i)]

\* re.split(r'[.!?]', s) from position i on
RECURSIVE SplitMarks(_, _)
SplitMarks(s, i) ==
    LET Mark(k) == Ch(s, k) \in {".", "!", "?"}
        b == FirstIndex(i, Len(s), Mark)
    IN IF b > Len(s) THEN <<From(s, i)>>
       ELSE <<SubSeq(s, i, b - 1)>> \o SplitMarks(s, b + 1)

MaxTitleLen == 60

CutTitleLen == 57

MinTitleSentenceLen == 20

MinTitleSentenceWords == 3

TitleWords == 4

\* lines 128-157
extract_quiz_title(ctx, custom_title) ==
    LET title == strip(custom_title)
        Usable(sentence) == /\ Len(strip(sentence)) > MinTitleSentenceLen
                            /\ Len(split(strip(sentence))) >= MinTitleSentenceWords
        usable == SelectSeq(SplitMarks(strip(ctx), 1), Usable)
        cut == strip(Prefix(strip(usable[1]), MaxTitleLen))
        words == Prefix(split(strip(ctx)), TitleWords)
    IN IF title # ""
       THEN IF Len(title) > MaxTitleLen THEN Prefix(title, CutTitleLen) \o "..." ELSE title
       ELSE IF ctx = "" THEN "Generated Quiz"
       ELSE IF usable # <<>>
       THEN IF \E m \in {".", "!", "?"} : endswith(cut, m) THEN cut ELSE cut \o "..."
       ELSE IF words # <<>> THEN join(" ", words) \o "..."
       ELSE "Study Material Quiz"

\* lines 418 and 445: context[:3000] and context[:500]
MaxContextLen == 3000

QuizContextLen == 500

\* what GeminiAPI.generate_questions returns: None, or the questions that
\* _clean_question let through
GeminiNone == [none |-> TRUE]

QuestionTrueFalse ==
    [question |-> "Cells divide.", type |-> "TrueFalse",
     options |-> <<"True", "False", "Option 3", "Option 4">>, answer |-> "True",
     explanation |-> "Based on the provided context.", difficulty |-> "medium"]

\* questions as the model's JSON holds them
RawTrueFalse ==
    [question |-> "Cells divide.", type |-> "TrueFalse",
     options |-> <<"True", "False">>, answer |-> "true"]

RawNoOptions == [question |-> "Do cells grow?", type |-> "MCQ", answer |-> "b"]

\* what model.generate_content does: it raises, or answers text that is not
\* JSON, or JSON with a list of questions
GeminiReplies ==
    {[kind |-> "api_error"], [kind |-> "bad_json"],
     [kind |-> "json", questions |-> <<>>],
     [kind |-> "json", questions |-> <<RawNoOptions>>],
     [kind |-> "json", questions |-> <<RawNoOptions, RawTrueFalse>>]}

\* lines 210-213: options padded to 4 with "Option N"
RECURSIVE PadOptions(_)
PadOptions(opts) ==
    IF Len(opts) >= 4 THEN opts
    ELSE PadOptions(Append(opts, "Option " \o ToString(Len(opts) + 1)))

\* lines 216-238 for a string answer
clean_answer(type, ans) ==
    IF type \in {"MCQ", "FillInBlank", "Statement"}
    THEN LET IsChoice(k) == upperChar(Ch(ans, k)) \in {"A", "B", "C", "D"}
             k == FirstIndex(1, Len(ans), IsChoice)
         IN IF k <= Len(ans) THEN upperChar(Ch(ans, k)) ELSE "A"
    ELSE IF type = "TrueFalse"
    THEN IF lower(ans) \in {"true", "t", "yes", "y", "a"} THEN "True" ELSE "False"
    ELSE ans

\* GeminiAPI._clean_question, lines 191-255: None, or the cleaned question
clean_gemini_question(question) ==
    IF ~({"question", "type", "options", "answer"} \subseteq DOMAIN question)
    THEN GeminiNone
    ELSE IF strip(question.question) = "" THEN GeminiNone
    ELSE IF Len(question.options) < 2 THEN GeminiNone
    ELSE [question |-> question.question, type |-> question.type,
          options |-> PadOptions(question.options),
          answer |-> clean_answer(question.type, question.answer),
          explanation |-> IF "explanation" \in DOMAIN question
                             /\ question.explanation # ""
                          THEN question.explanation
                          ELSE "Based on the provided context.",
          difficulty |-> IF "difficulty" \in DOMAIN question
                         THEN question.difficulty ELSE "medium"]

\* lines 167-173: the questions _clean_question lets through
validated_questions(qs) ==
    LET each == [i \in 1..Len(qs) |-> clean_gemini_question(qs[i])]
        Kept(q) == q # GeminiNone
    IN SelectSeq(each, Kept)

\* GeminiAPI.generate_questions, lines 33-189
GeminiAPI_generate_questions(available, reply) ==
    IF ~available THEN GeminiNone
    ELSE IF reply.kind # "json" THEN GeminiNone
    ELSE [questions |-> validated_questions(reply.questions)]

\* how the service fares while a request is handled
GeminiOutcome(available, reply) ==
    IF ~available THEN "unavailable"
    ELSE IF reply.kind # "json" THEN reply.kind
    ELSE IF validated_questions(reply.questions) = <<>> THEN "no_valid_question"
    ELSE "questions"

\* the test of line 431 with an empty list taken for questions
NoQuestionsNoneOnly(result) == result = GeminiNone

\* line 431: not gemini_questions
NoQuestions(result) == result = GeminiNone \/ result.questions = <<>>

\* the JSON bodies posted to /generate
GenerateBodies ==
    {[context |-> " Cells divide and grow in every living tissue. ", title |-> "",
      num_questions |-> "2", difficulty |-> "medium"],
     [context |-> " \n", title |-> "Biology", num_questions |-> "2",
      difficulty |-> "medium"],
     [context |-> "Cells divide.", title |-> "Biology", num_questions |-> "many",
      difficulty |-> "medium"]}

\* int(x) raises ValueError unless x is a decimal numeral
IsNumeral(x) == x # "" /\ \A i \in 1..Len(x) : Ch(x, i) \in DigitSet

dashboard(c) ==
    LET req == [route |-> "dashboard", client |-> c]
    IN login_required(c, req,
        \E s \in render_template(sessions[c]) :
            /\ SessionSet(c, s)
            /\ Answered(req, page("dashboard.html", ""),
                        {<<"SELECT", "quiz_attempts">>, <<"SELECT", "quizzes">>})
            /\ UNCHANGED <<db, now>>)

\* the rows lines 449-455 insert for the questions qs of quiz quiz_id
QuestionRows(qs, quiz_id, first_id) ==
    {[id |-> first_id + i - 1, quiz_id |-> quiz_id,
      question_text |-> qs[i].question, options |-> json_dumps(qs[i].options),
      answer |-> qs[i].answer, question_type |-> qs[i].type,
      explanation |-> qs[i].explanation, difficulty |-> qs[i].difficulty] :
        i \in 1..Len(qs)}

generate_questions_gemini(c) ==
    \E data \in GenerateBodies, available \in BOOLEAN, reply \in GeminiReplies :
        LET req == [route |-> "generate", client |-> c,
                    gemini |-> GeminiOutcome(available, reply)]
            result == GeminiAPI_generate_questions(available, reply)
            ctx == Prefix(strip(data.context), MaxContextLen)
            quiz_title == extract_quiz_title(ctx, strip(data.title))
            quiz_id == db.sqlite_sequence.quizzes + 1
            qs == result.questions
            types == {qs[i].type : i \in 1..Len(qs)}
        IN login_required(c, req,
            IF ~IsNumeral(data.num_questions)
            THEN /\ Answered(req, jsonify("Question generation failed", 500), {})
                 /\ UNCHANGED <<db, sessions, now>>
            ELSE IF ctx = ""
            THEN /\ Answered(req, jsonify("Empty context", 400), {})
                 /\ UNCHANGED <<db, sessions, now>>
            ELSE IF ~available
            THEN /\ Answered(req, jsonify("Gemini AI service is not available", 500), {})
                 /\ UNCHANGED <<db, sessions, now>>
            ELSE IF NoQuestions(result)
            THEN /\ Answered(req, jsonify("Failed to generate questions with Gemini AI", 500), {})
                 /\ UNCHANGED <<db, sessions, now>>
            ELSE \E question_types \in ListPrefixes(types, Cardinality(types)) :
                 /\ quiz_id <= MaxQuizzes
                 /\ db' = [db EXCEPT
                        !.quizzes = @ \cup
                            {[id |-> quiz_id, user_id |-> sessions[c]["user_id"],
                              title |-> quiz_title,
                              context |-> Prefix(ctx, QuizContextLen),
                              difficulty |-> data.difficulty,
                              question_types |-> json_dumps(question_types)]},
                        !.questions = @ \cup
                            QuestionRows(qs, quiz_id, db.sqlite_sequence.questions + 1),
                        !.sqlite_sequence.quizzes = quiz_id,
                        !.sqlite_sequence.questions = @ + Len(qs)]
                 /\ SessionSet(c, ("current_quiz" :> qs) @@ ("current_quiz_id" :> quiz_id)
                                  @@ ("quiz_title" :> quiz_title) @@ sessions[c])
                 /\ Answered(req, jsonify([source |-> "Gemini AI", questions |-> qs,
                                           title |-> quiz_title], 200),
                             {<<"INSERT", "quizzes">>, <<"INSERT", "questions">>})
                 /\ UNCHANGED now)

take_quiz(c) ==
    LET req == [route |-> "take_quiz", client |-> c]
        quiz == Get(sessions[c], "current_quiz", <<>>)
    IN login_required(c, req,
        IF quiz = <<>>
        THEN /\ SessionSet(c, flash(sessions[c],
                    "No quiz available. Please generate a quiz first.", "warning"))
             /\ Answered(req, redirect("quiz.dashboard"), {})
             /\ UNCHANGED <<db, now>>
        ELSE \E s \in render_template(sessions[c]) :
             /\ SessionSet(c, s)
             /\ Answered(req, [status |-> 200, template |-> "quiz.html",
                               questions |-> quiz,
                               quiz_title |-> Get(sessions[c], "quiz_title", "Generated Quiz")],
                         {})
             /\ UNCHANGED <<db, now>>)

\* the JSON bodies posted to /save_attempt; the last one has no score
SaveBodies ==
    {[score |-> 1, total |-> 2, answers |-> <<" a", "A">>, time_spent |-> 30],
     [score |-> 2, total |-> 2, answers |-> <<"A", "B", "">>, time_spent |-> 45],
     [total |-> 2, answers |-> <<"A", "A">>, time_spent |-> 10]}

upper(s) == [i \in 1..Len(s) |-> upperChar(Ch(s, i))]

\* lines 510-528
normalize_answers(user_answers, rows) ==
    [i \in 1..Len(user_answers) |->
        LET ans == user_answers[i]
        IN IF i <= Len(rows)
           THEN IF rows[i].question_type = "TrueFalse"
                THEN IF ans = "A" THEN "True" ELSE IF ans = "B" THEN "False" ELSE ans
                ELSE IF strip(ans) # "" THEN upperChar(Ch(strip(ans), 1)) ELSE ""
           ELSE ans]

\* lines 570-586: the row create_new_attempt inserts
new_attempt(id, user_id, quiz_id, data, normalized_answers) ==
    LET quiz == {q \in db.quizzes : q.id = quiz_id}
    IN [id |-> id, user_id |-> user_id, quiz_id |-> quiz_id,
        score |-> data.score, total_questions |-> data.total,
        answers |-> json_dumps(normalized_answers),
        time_spent |-> Get(data, "time_spent", 0),
        difficulty |-> IF quiz # {} THEN (CHOOSE q \in quiz : TRUE).difficulty
                       ELSE "medium",
        question_types |-> IF quiz # {} THEN (CHOOSE q \in quiz : TRUE).question_types
                           ELSE json_dumps(<<>>),
        completed_at |-> now]

\* SELECT id FROM quiz_attempts WHERE user_id = ? AND quiz_id = ?
\* ORDER BY completed_at DESC LIMIT 1: rows of equal completed_at come in
\* no defined order
latest_attempts(user_id, quiz_id) ==
    LET mine == {a \in db.quiz_attempts : a.user_id = user_id /\ a.quiz_id = quiz_id}
    IN {a \in mine : \A b \in mine : b.completed_at <= a.completed_at}

\* every save inserts a row
is_retake_updateNever(s, latest) == FALSE

\* lines 533-545: the save updates the latest attempt
is_retake_update(s, latest) == Get(s, "is_retake", FALSE) /\ latest # {}

\* the pops of lines 563-566 without that of current_quiz_id
QuizKeysNoId == {"current_quiz", "is_retake", "quiz_title"}

\* lines 563-566: the keys save_attempt pops
QuizKeys == {"current_quiz", "current_quiz_id", "is_retake", "quiz_title"}

\* the body of save_attempt for a request that carries the session cookie s
save_attempt_body(c, s, req) ==
    \E data \in SaveBodies :
        LET user_id == s["user_id"]
            quiz_id == s["current_quiz_id"]
            rows == ById({q \in db.questions : q.quiz_id = quiz_id})
            normalized_answers == normalize_answers(data.answers, rows)
            latest == latest_attempts(user_id, quiz_id)
            attempt_id == db.sqlite_sequence.quiz_attempts + 1
        IN  IF "current_quiz_id" \notin DOMAIN s
            THEN /\ Answered(req, jsonify("No quiz id found", 400), {})
                 /\ UNCHANGED <<db, sessions, now>>
            ELSE IF "score" \notin DOMAIN data
            THEN /\ Answered(req, [status |-> 500],
                             {<<"SELECT", "questions">>, <<"SELECT", "quiz_attempts">>})
                 /\ UNCHANGED <<db, sessions, now>>
            ELSE IF is_retake_update(s, latest)
            THEN \E latest_attempt \in latest :
                 /\ db' = [db EXCEPT !.quiz_attempts =
                        (@ \ {latest_attempt}) \cup
                        {[latest_attempt EXCEPT
                            !.score = data.score, !.total_questions = data.total,
                            !.answers = json_dumps(normalized_answers),
                            !.time_spent = Get(data, "time_spent", 0),
                            !.completed_at = now]}]
                 /\ SessionSet(c, Pop(s, QuizKeys))
                 /\ Answered(req, jsonify([success |-> TRUE,
                                           attempt_id |-> latest_attempt.id], 200),
                             {<<"SELECT", "questions">>, <<"SELECT", "quiz_attempts">>,
                              <<"UPDATE", "quiz_attempts">>})
                 /\ UNCHANGED now
            ELSE /\ attempt_id <= MaxAttempts
                 /\ db' = [db EXCEPT
                        !.quiz_attempts = @ \cup
                            {new_attempt(attempt_id, user_id, quiz_id, data,
                                         normalized_answers)},
                        !.sqlite_sequence.quiz_attempts = attempt_id]
                 /\ SessionSet(c, Pop(s, QuizKeys))
                 /\ Answered(req, jsonify([success |-> TRUE, attempt_id |-> attempt_id], 200),
                             {<<"SELECT", "questions">>, <<"SELECT", "quizzes">>,
                              <<"INSERT", "quiz_attempts">>} \cup
                             (IF Get(s, "is_retake", FALSE)
                              THEN {<<"SELECT", "quiz_attempts">>} ELSE {}))
                 /\ UNCHANGED now

\* the request carries the cookie the browser holds
save_attempt(c) ==
    LET req == [route |-> "save_attempt", client |-> c, cookie |-> sessions[c]]
    IN login_required(c, req, save_attempt_body(c, sessions[c], req))

\* The session is a cookie signed by the server (Flask's default, no session
\* store is configured): a request sent again before the first answer
\* arrived carries the same cookie, and the server handles it after the
\* first one with that cookie's contents.
save_attempt_resent(c) ==
    /\ http_request.route = "save_attempt" /\ http_request.client = c
    /\ "resent" \notin DOMAIN http_request
    /\ LET s == http_request.cookie
           req == [route |-> "save_attempt", client |-> c, cookie |-> s,
                   resent |-> TRUE]
       IN IF "user_id" \notin DOMAIN s
          THEN /\ Answered(req, redirect("auth.login"), {})
               /\ UNCHANGED <<db, sessions, now>>
          ELSE save_attempt_body(c, s, req)

---------------------------------------------------------------------------
(* src/app/routes/progress.py: retake_quiz, delete_attempt, view_attempt,
   edit_attempt_title *)

\* ids a browser may put into a URL
AttemptIds == 1..MaxAttempts

QuizIds == 1..MaxQuizzes

UserIds == 1..MaxUsers

\* lines 636-653: the questions of the quiz as the session holds them
quiz_questions(rows) ==
    [i \in 1..Len(rows) |->
        [question |-> rows[i].question_text, options |-> json_loads(rows[i].options),
         answer |-> rows[i].answer, explanation |-> rows[i].explanation,
         type |-> rows[i].question_type, difficulty |-> rows[i].difficulty]]

retake_quiz(c) ==
    \E attempt_id \in AttemptIds :
        LET req == [route |-> "retake_quiz", client |-> c, attempt_id |-> attempt_id]
            s == sessions[c]
            original == {a \in db.quiz_attempts :
                            /\ a.id = attempt_id /\ a.user_id = s["user_id"]
                            /\ \E q \in db.quizzes : q.id = a.quiz_id}
            quiz_id == (CHOOSE a \in original : TRUE).quiz_id
            rows == ById({q \in db.questions : q.quiz_id = quiz_id})
        IN login_required(c, req,
            /\ IF original = {}
               THEN /\ SessionSet(c, flash(s, "Quiz attempt not found", "error"))
                    /\ Answered(req, redirect("progress.history"),
                                {<<"SELECT", "quiz_attempts">>, <<"SELECT", "quizzes">>})
               ELSE IF rows = <<>>
               THEN /\ SessionSet(c, flash(s, "No questions found for this quiz", "error"))
                    /\ Answered(req, redirect("progress.history"),
                                {<<"SELECT", "quiz_attempts">>, <<"SELECT", "quizzes">>,
                                 <<"SELECT", "questions">>})
               ELSE /\ SessionSet(c, flash(
                            ("current_quiz" :> quiz_questions(rows))
                                @@ ("current_quiz_id" :> quiz_id)
                                @@ ("is_retake" :> TRUE) @@ s,
                            "Quiz loaded from your previous attempt! Good luck!", "success"))
                    /\ Answered(req, redirect("quiz.take_quiz"),
                                {<<"SELECT", "quiz_attempts">>, <<"SELECT", "quizzes">>,
                                 <<"SELECT", "questions">>})
            /\ UNCHANGED <<db, now>>)

delete_attempt(c) ==
    \E attempt_id \in AttemptIds :
        LET req == [route |-> "delete_attempt", client |-> c, attempt_id |-> attempt_id]
            found == {a \in db.quiz_attempts :
                            a.id = attempt_id /\ a.user_id = sessions[c]["user_id"]}
        IN login_required(c, req,
            IF found = {}
            THEN /\ Answered(req, jsonify("Quiz attempt not found", 404),
                             {<<"SELECT", "quiz_attempts">>})
                 /\ UNCHANGED <<db, sessions, now>>
            ELSE /\ db' = [db EXCEPT !.quiz_attempts = @ \ found]
                 /\ Answered(req, jsonify([success |-> TRUE], 200),
                             {<<"SELECT", "quiz_attempts">>, <<"DELETE", "quiz_attempts">>})
                 /\ UNCHANGED <<sessions, now>>)

\* lines 498-597 of progress.py
view_attempt(c) ==
    \E attempt_id \in AttemptIds :
        LET req == [route |-> "view_attempt", client |-> c, attempt_id |-> attempt_id]
            s == sessions[c]
            found == {<<a, q>> \in db.quiz_attempts \X db.quizzes :
                        /\ a.id = attempt_id /\ a.user_id = s["user_id"]
                        /\ q.id = a.quiz_id}
        IN login_required(c, req,
            /\ IF found = {}
               THEN /\ SessionSet(c, flash(s, "Quiz attempt not found", "error"))
                    /\ Answered(req, redirect("progress.history"),
                                {<<"SELECT", "quiz_attempts">>})
               ELSE \E row \in found, shown \in render_template(s) :
                    /\ SessionSet(c, shown)
                    /\ Answered(req, [status |-> 200, template |-> "attempt_details.html",
                                      attempt |-> row[1], quiz_title |-> row[2].title,
                                      context |-> row[2].context],
                                {<<"SELECT", "quiz_attempts">>, <<"SELECT", "questions">>})
            /\ UNCHANGED <<db, now>>)

\* the JSON titles posted to /edit_attempt_title
NewTitles == {" ", " Renamed "}

\* lines 677-706 of progress.py
edit_attempt_title(c) ==
    \E attempt_id \in AttemptIds, title \in NewTitles :
        LET req == [route |-> "edit_attempt_title", client |-> c,
                    attempt_id |-> attempt_id]
            new_title == strip(title)
            found == {a \in db.quiz_attempts :
                            a.id = attempt_id /\ a.user_id = sessions[c]["user_id"]}
        IN login_required(c, req,
            IF new_title = ""
            THEN /\ Answered(req, jsonify("Title cannot be empty", 400), {})
                 /\ UNCHANGED <<db, sessions, now>>
            ELSE IF found = {}
            THEN /\ Answered(req, jsonify("Quiz attempt not found", 404),
                             {<<"SELECT", "quiz_attempts">>})
                 /\ UNCHANGED <<db, sessions, now>>
            ELSE \E a \in found :
                 /\ db' = [db EXCEPT !.quizzes =
                        {IF q.id = a.quiz_id THEN [q EXCEPT !.title = new_title] ELSE q :
                            q \in @}]
                 /\ Answered(req, jsonify([success |-> TRUE, new_title |-> new_title], 200),
                             {<<"SELECT", "quiz_attempts">>, <<"UPDATE", "quizzes">>})
                 /\ UNCHANGED <<sessions, now>>)

---------------------------------------------------------------------------
(* src/app/routes/admin.py: delete_user, delete_quiz; settings.py:
   delete_account *)

\* lines 270-273 without the test of lines 266-268
delete_userAnyRole(c, user_id, req) ==
    /\ db' = [db EXCEPT
            !.quiz_attempts = {a \in @ : a.user_id # user_id},
            !.quizzes = {q \in @ : q.user_id # user_id},
            !.users = {u \in @ : u.id # user_id}]
    /\ Answered(req, jsonify([success |-> TRUE,
                              message |-> "User deleted successfully"], 200),
                {<<"SELECT", "users">>, <<"DELETE", "quiz_attempts">>,
                 <<"DELETE", "quizzes">>, <<"DELETE", "users">>})
    /\ UNCHANGED <<sessions, now>>

\* lines 262-279: the body of delete_user
delete_user_body(c, user_id, req) ==
    IF \E u \in db.users : u.id = user_id /\ u.role = "admin"
    THEN /\ Answered(req, jsonify("Cannot delete administrator accounts", 400),
                     {<<"SELECT", "users">>})
         /\ UNCHANGED <<db, sessions, now>>
    ELSE /\ db' = [db EXCEPT
                !.quiz_attempts = {a \in @ : a.user_id # user_id},
                !.quizzes = {q \in @ : q.user_id # user_id},
                !.users = {u \in @ : u.id # user_id}]
         /\ Answered(req, jsonify([success |-> TRUE,
                                   message |-> "User deleted successfully"], 200),
                     {<<"SELECT", "users">>, <<"DELETE", "quiz_attempts">>,
                      <<"DELETE", "quizzes">>, <<"DELETE", "users">>})
         /\ UNCHANGED <<sessions, now>>

delete_user(c) ==
    \E user_id \in UserIds :
        LET req == [route |-> "delete_user", client |-> c, user_id |-> user_id]
        IN login_required(c, req, admin_required(c, req,
                delete_user_body(c, user_id, req)))

delete_quiz(c) ==
    \E quiz_id \in QuizIds :
        LET req == [route |-> "delete_quiz", client |-> c, quiz_id |-> quiz_id]
        IN login_required(c, req, admin_required(c, req,
            /\ db' = [db EXCEPT
                    !.quiz_attempts = {a \in @ : a.quiz_id # quiz_id},
                    !.quizzes = {q \in @ : q.id # quiz_id}]
            /\ Answered(req, jsonify([success |-> TRUE,
                                      message |-> "Quiz deleted successfully"], 200),
                        {<<"DELETE", "quiz_attempts">>, <<"DELETE", "quizzes">>})
            /\ UNCHANGED <<sessions, now>>))

delete_account(c) ==
    LET req == [route |-> "delete_account", client |-> c]
        user_id == sessions[c]["user_id"]
        mine == {q.id : q \in {q \in db.quizzes : q.user_id = user_id}}
    IN login_required(c, req,
        /\ db' = [db EXCEPT
                !.quiz_attempts = {a \in @ : a.user_id # user_id},
                !.questions = {q \in @ : q.quiz_id \notin mine},
                !.quizzes = {q \in @ : q.user_id # user_id},
                !.users = {u \in @ : u.id # user_id}]
        /\ SessionSet(c, flash(EmptyDict, "Your account has been deleted", "info"))
        /\ Answered(req, redirect("auth.index"),
                    {<<"DELETE", "quiz_attempts">>, <<"DELETE", "questions">>,
                     <<"SELECT", "quizzes">>, <<"DELETE", "quizzes">>,
                     <<"DELETE", "users">>})
        /\ UNCHANGED now)

---------------------------------------------------------------------------
(* The application serving requests, one at a time *)

\* a second passes
Tick ==
    /\ now < MaxTime
    /\ now' = now + 1
    /\ UNCHANGED <<db, sessions, http_request, http_response, executed, served>>
    /\ UNCHANGED app_others

\* a database the application reaches: alice has registered, generated a
\* quiz and saved her attempt at it
SeededDb ==
    LET alice == [id |-> 2, username |-> "alice", email |-> "alice@quiz.io",
                  password_hash |-> generate_password_hash("Alice#2024"),
                  role |-> "user"]
        quiz == [id |-> 1, user_id |-> 2,
                 title |-> "Cells divide and grow in every living tissue...",
                 context |-> "Cells divide and grow in every living tissue.",
                 difficulty |-> "medium",
                 question_types |-> json_dumps(<<"TrueFalse">>)]
        data == [score |-> 1, total |-> 2, answers |-> <<" a", "A">>, time_spent |-> 30]
    IN [users |-> {DefaultAdmin, alice},
        quizzes |-> {quiz},
        questions |-> QuestionRows(<<QuestionTrueFalse>>, 1, 1),
        quiz_attempts |->
            {[id |-> 1, user_id |-> 2, quiz_id |-> 1, score |-> 1, total_questions |-> 2,
              answers |-> json_dumps(<<" a", "A">>), time_spent |-> 30,
              difficulty |-> "medium", question_types |-> json_dumps(<<"TrueFalse">>),
              completed_at |-> 0]},
        sqlite_sequence |-> [users |-> 2, quizzes |-> 1, questions |-> 1,
                             quiz_attempts |-> 1]]

InitApp ==
    /\ run_idle /\ cq_idle /\ gd_idle /\ fb_idle
    /\ db \in {InitialDb, SeededDb}
    /\ sessions = [c \in Clients |-> EmptyDict]
    /\ now = 0
    /\ http_request = NoRequest /\ http_response = NoResponse
    /\ executed = {} /\ served = 0

\* a handler runs only while the request budget lasts
NextApp ==
    \/ Tick
    \/ served < MaxRequests /\ \E c \in Clients : login(c)
    \/ served < MaxRequests /\ \E c \in Clients : register(c)
    \/ served < MaxRequests /\ \E c \in Clients : admin_login(c)
    \/ served < MaxRequests /\ \E c \in Clients : logout(c)
    \/ served < MaxRequests /\ \E c \in Clients : dashboard(c)
    \/ served < MaxRequests /\ \E c \in Clients : generate_questions_gemini(c)
    \/ served < MaxRequests /\ \E c \in Clients : take_quiz(c)
    \/ served < MaxRequests /\ \E c \in Clients : save_attempt(c)
    \/ served < MaxRequests /\ \E c \in Clients : save_attempt_resent(c)
    \/ served < MaxRequests /\ \E c \in Clients : view_attempt(c)
    \/ served < MaxRequests /\ \E c \in Clients : edit_attempt_title(c)
    \/ served < MaxRequests /\ \E c \in Clients : retake_quiz(c)
    \/ served < MaxRequests /\ \E c \in Clients : delete_attempt(c)
    \/ served < MaxRequests /\ \E c \in Clients : delete_user(c)
    \/ served < MaxRequests /\ \E c \in Clients : delete_quiz(c)
    \/ served < MaxRequests /\ \E c \in Clients : delete_account(c)

SpecApp == InitApp /\ [][NextApp]_vars

---------------------------------------------------------------------------
(* Properties *)

\* the run has answered with a question list
Returned == pc = "done" /\ response.status = 200

NoEqualTexts(qs) ==
    \A i, j \in 1..Len(qs) : i # j => qs[i].question # qs[j].question

NoEqualOptionsIgnoringCase(opts) ==
    \A i, j \in 1..Len(opts) : i # j => lower(opts[i]) # lower(opts[j])

\* some pass of the loop of lines 960-968 can add an option
PadCanGrow ==
    \/ context_words[context] = <<>>
    \/ \E new_opt \in Range(context_words[context]) :
          new_opt \notin Range(options) /\ new_opt # answer

IsBlank(s) == \A i \in 1..Len(s) : isspace(Ch(s, i))

\* C1: for a non-empty sourceText and requestedCount >= 1, whatever the
\* pipelines return, the question list a run returns has exactly
\* requestedCount entries.
C1_ExactCount ==
    (Returned /\ context # "" /\ num_questions >= 1)
        => Len(response.questions) = num_questions

\* C2: every question the synthesis loop appends has exactly 4 options, and
\* its answer is exactly one of them (compared case-sensitively).
C2_FourOptionsAnswerOnce ==
    \A i \in 1..Len(response_questions) :
        /\ Len(response_questions[i].options) = NumOptions
        /\ Occurrences(response_questions[i].options, response_questions[i].answer) = 1

\* C3: no question a run returns has two options that are equal ignoring
\* case, padding words and "Option {letter}" placeholders included.
C3_NoDuplicateOptions ==
    Returned =>
        \A i \in 1..Len(response.questions) :
            NoEqualOptionsIgnoringCase(response.questions[i].options)

\* C4: every run terminates: it makes at most requestedCount * 5 attempts,
\* and each attempt finishes, so while the loop that pads the options to 4
\* is running some pass of it can add an option.
C4_AttemptsFinish ==
    /\ attempt <= num_questions * AttemptFactor
    /\ (pc = "pad" /\ Len(options) < NumOptions) => PadCanGrow

\* C5: no two questions of the list a run returns have the same question
\* text, whether the synthesis loop or the template fallback built the list.
C5_NoRepeatedQuestion == Returned => NoEqualTexts(response.questions)

\* C6: when the fallback answers a request for requestedCount >= 1 questions
\* (no usable chunk, or the budget spent with nothing accepted), the run
\* returns exactly requestedCount questions, each with 4 non-empty pairwise
\* distinct options that include its answer.
C6_FallbackComplete ==
    (Returned /\ response.source = "CONTENT_BASED" /\ num_questions >= 1) =>
        /\ Len(response.questions) = num_questions
        /\ \A i \in 1..Len(response.questions) :
              /\ Len(response.questions[i].options) = NumOptions
              /\ "" \notin Range(response.questions[i].options)
              /\ Cardinality(Range(response.questions[i].options)) = NumOptions
              /\ response.questions[i].answer \in Range(response.questions[i].options)

\* C6, its case: the budget of a request for at least one question is spent
\* with both pipelines never having produced an accepted question
C6_BudgetSpentFallback ==
    /\ Returned /\ response.source = "CONTENT_BASED"
    /\ num_questions >= 1
    /\ attempt = num_questions * AttemptFactor
    /\ qa_calls = 0

Scenario1 == [context |-> TextPython, num_questions |-> 1]

\* C7: in Scenario 1 (synthesizer "Who created <sep> Python?", extractor
\* ("Guido van Rossum", 0.9), one question requested) the run accepts the
\* candidate and returns one question "Who created Python?" with answer
\* "Guido van Rossum" and 4 options that include the answer.
C7_Scenario1Accepted ==
    (pc = "done" /\ request = Scenario1) =>
        /\ Len(response.questions) = 1
        /\ response.questions[1].question = "Who created Python?"
        /\ response.questions[1].answer = "Guido van Rossum"
        /\ Len(response.questions[1].options) = NumOptions
        /\ "Guido van Rossum" \in Range(response.questions[1].options)

\* C7 as amended: in Scenario 1 the candidate is rejected on each of the 5
\* attempts (its cleaned text "Who created  Python?" has three words), the
\* extractor is never called, and the run returns one template question
\* about "Python" with answer "Key element discussed" and the four fixed
\* options.
C7_Scenario1Fallback ==
    (pc # "start" /\ request = Scenario1) =>
        /\ cleaned["Who created <sep> Python?"] = "Who created  Python?"
        /\ response_questions = <<>> /\ used_questions = {}
        /\ qa_calls = 0 /\ qg_calls = attempt
        /\ pc \in {"loop", "done"}
        /\ pc = "done" =>
              /\ attempt = AttemptFactor
              /\ response.status = 200 /\ response.source = "CONTENT_BASED"
              /\ Len(response.questions) = 1
              /\ response.questions[1].question \in
                    {"What is the significance of Python?", "How does Python contribute?",
                     "What role does Python play?", "Why is Python important?"}
              /\ response.questions[1].answer = "Key element discussed"
              /\ response.questions[1].options =
                    <<"Key element discussed", "Important role", "Central to topic",
                      "Provides context">>

\* C7, its case: the Scenario 1 run has ended after five synthesizer calls
C7_Scenario1Ended == pc = "done" /\ request = Scenario1 /\ qg_calls = AttemptFactor

\* C8: an empty or whitespace-only sourceText is answered 400 "Empty
\* context" before the pipeline is entered: no chunk, no synthesizer or
\* extractor call, no fallback question, no quiz or question row, and the
\* session left as it was.
C8_EmptyContextRejected ==
    [][(pc = "start" /\ IsBlank(request.context)) =>
          /\ pc' = "done"
          /\ response' = Response(400, "", "Empty context", <<>>)
          /\ UNCHANGED <<chunks, attempt, response_questions, used_questions,
                         qg_calls, qa_calls, quizzes, questions, session>>]_vars

\* C8, its case: a whitespace-only context posted by a session that holds an
\* earlier quiz has been answered
C8_BlankAnswered ==
    /\ pc = "done" /\ request.context = " \n " /\ request.num_questions >= 1
    /\ response.status = 400
    /\ "current_quiz" \in DOMAIN session

\* C9: clean_question is idempotent: cleaning a cleaned question leaves it
\* as it is, for every raw question.
C9_CleanIdempotent == cq_pc = "twice" => cq_twice = cq_once

\* C10: generate_distractors is deterministic: two calls with the same
\* answer, count and sourceText return the same distractors in the same
\* order, whatever order the intermediate set iterates in.
C10_DistractorsDeterministic == gd_pc = "done" => gd_second = gd_first

\* C11: the template fallback is deterministic: two calls with the same
\* sourceText and requestedCount return the same list (same question text,
\* options and answer at every index).
C11_FallbackDeterministic == fb_pc = "done" => fb_second = fb_first

\* the question rows of quiz `id`, in insertion order, as questions
StoredQuestions(id) ==
    LET OfQuiz(row) == row.quiz_id = id
        rows == SelectSeq(questions, OfQuiz)
    IN [i \in 1..Len(rows) |->
          MCQ(rows[i].question_text, rows[i].options, rows[i].answer)]

\* C12: whenever a run returns a question list, from the synthesis loop or
\* from the fallback, that list has been stored (a quiz row and one
\* question row per returned question) and is the session's current quiz.
C12_ReturnedListStored ==
    (Returned /\ response.questions # <<>>) =>
        /\ "current_quiz" \in DOMAIN session
        /\ session["current_quiz"] = response.questions
        /\ \E i \in 1..Len(quizzes) : quizzes[i].id = session["current_quiz_id"]
        /\ StoredQuestions(session["current_quiz_id"]) = response.questions

\* the topics whose keyword the answer contains
AnswerTopics(ans) ==
    {i \in 1..Len(topic_distractors) : contains(AnswerLower(ans), topic_distractors[i][1])}

\* the topics lines 772-773 match: by the answer or by a candidate word
MatchedTopics(ans, num_choices, ctx) ==
    {i \in 1..Len(topic_distractors) :
        \/ contains(AnswerLower(ans), topic_distractors[i][1])
        \/ \E word \in DistractorPool(ans, num_choices, ctx) :
              contains(word, topic_distractors[i][1])}

\* the result holds a term mapped to topic i, in either case convention
HasTermOf(result, i) ==
    \E k \in 1..Len(result) :
        lower(result[k]) \in Range(topic_distractors[i][2])

\* C13: whenever the lowercased answer contains a lexicon topic keyword, the
\* sequence generate_distractors returns includes at least one of the terms
\* mapped to that keyword, for every source text and every ordering of the
\* candidate set.
C13_LexiconTermIncluded ==
    (gd_pc = "second" /\ gd_count >= 1) =>
        \A i \in AnswerTopics(gd_answer) : HasTermOf(gd_first, i)

\* C13 as amended: when the answer contains a topic keyword, no other
\* keyword is matched by the answer or a candidate word, and fewer than
\* count words of the source text are candidates, the returned sequence
\* includes at least one of the terms mapped to that keyword, for every
\* ordering of the candidate set.
C13_LexiconTermWhenFewWords ==
    (/\ gd_pc = "second" /\ gd_count >= 1
     /\ AnswerTopics(gd_answer) # {}
     /\ MatchedTopics(gd_answer, gd_count, gd_context) = AnswerTopics(gd_answer)
     /\ Cardinality(AnswerTopics(gd_answer)) = 1
     /\ Cardinality(ContextWords(gd_answer, gd_count, gd_context)) < gd_count) =>
        \A i \in AnswerTopics(gd_answer) : HasTermOf(gd_first, i)

\* C13, its case: Scenario 4 has returned two context words and one term
C13_Scenario4Mixed ==
    /\ gd_pc = "second"
    /\ gd_answer = "testing" /\ gd_count = NumDistractors /\ gd_context = TextTesting
    /\ "important" \in Range(gd_first) /\ "quality" \in Range(gd_first)
    /\ HasTermOf(gd_first, 1)

\* the paragraphs of more than 10 words, and the sentences of at least 8
LongParagraphs(ctx) ==
    LET Long(c) == Len(split(c)) > ParagraphMinWords
    IN StripAll(SelectSeq(SplitParagraphs(ctx, 1), Long))

MinLengthSentences(ctx) ==
    LET Long(c) == Len(split(c)) >= SentenceMinWords
    IN StripAll(SelectSeq(SplitSentences(ctx, 1), Long))

LongSentences(ctx) ==
    LET Long(c) == Len(split(c)) > SentenceMinWords
    IN StripAll(SelectSeq(SplitSentences(ctx, 1), Long))

C19_AcceptedValid ==
    [][Len(response_questions') > Len(response_questions)
          => LET q == response_questions'[Len(response_questions')]
             IN /\ Len(response_questions') = Len(response_questions) + 1
                /\ q.question = question_text /\ q.answer = answer
                /\ endswith(q.question, "?")
                /\ Len(split(q.question)) >= 4 /\ Len(split(q.question)) <= 20
                /\ q.answer # ""
                /\ Len(split(q.answer)) <= 8
                /\ answer_score >= 10
                /\ lower(q.answer) \notin {"yes", "no", "true", "false"}]_vars

\* a second question has been appended in a run where answers of low
\* confidence and boolean answers were on offer
C19_ValidAppended ==
    /\ Len(response_questions) = 2
    /\ context \in {TextRome, TextZoo}

\* C20: an attempt that fails (the question or the answer is rejected, or a
\* pipeline raises) leaves the results list, the response and the stored data
\* as they were and the loop running; the loop ends only with
\* num_questions results or with num_questions * 5 attempts made.
C20_FailedCandidateSkipped ==
    [][/\ (pc = "loop" /\ attempt' = attempt + 1 /\ pc' # "pad")
          => /\ response_questions' = response_questions
             /\ pc' = "loop"
             /\ response' = response
             /\ UNCHANGED db_vars
       /\ (pc = "loop" /\ pc' # "loop" /\ pc' # "pad")
          => \/ Len(response_questions) >= num_questions
             \/ attempt >= num_questions * 5]_vars

\* after two attempts, one accepted and one that failed before the answer
\* was asked for, the loop is still running
C20_LoopWentOn ==
    /\ pc = "loop" /\ num_questions = 2
    /\ attempt = 2 /\ qg_calls = 2 /\ qa_calls = 1
    /\ Len(response_questions) = 1

\* the routes wrapped by login_required
ProtectedRoutes ==
    {"dashboard", "generate", "take_quiz", "save_attempt", "retake_quiz",
     "delete_attempt", "delete_user", "delete_quiz", "delete_account",
     "view_attempt", "edit_attempt_title"}

\* the session of the browser whose request was served by this step
Requester == sessions[http_request'.client]

\* C15: whenever the session holds no user_id (after logout cleared it, or
\* before any login), a request to a route wrapped by login_required is
\* answered with a redirect to the login page, no SQL statement is executed,
\* and the database and the session stay as they were; a user_id enters a
\* session only by a login, admin login or register that succeeds.
C15_LoginRequiredRedirects ==
    [][/\ (/\ served' # served
           /\ http_request'.route \in ProtectedRoutes
           /\ "user_id" \notin DOMAIN Requester)
          => /\ http_response' = redirect("auth.login")
             /\ executed' = {}
             /\ db' = db /\ sessions' = sessions
       /\ (\E c \in Clients : /\ "user_id" \notin DOMAIN sessions[c]
                              /\ "user_id" \in DOMAIN sessions'[c])
          => /\ http_request'.route \in {"login", "register", "admin_login"}
             /\ http_response'.status = 302]_vars

\* a protected route was asked for after a logout, with rows in the tables
C15_RedirectedAfterLogout ==
    /\ http_request.route \in ProtectedRoutes
    /\ http_response = redirect("auth.login")
    /\ sessions[http_request.client] = flash(EmptyDict, "", "info")
    /\ db.quiz_attempts # {}

\* the rows of users with role 'admin'
Admins(database) == {u \in database.users : u.role = "admin"}

\* C16: a delete_user request never removes an administrator row; when its
\* target has role 'admin' the users, quizzes and quiz_attempts tables stay
\* as they were, and the handler, once the decorators let it run, answers 400.
C16_AdminNeverDeleted ==
    [][(served' # served /\ http_request'.route = "delete_user")
          => /\ Admins(db) \subseteq Admins(db')
             /\ (\E u \in Admins(db) : u.id = http_request'.user_id)
                => /\ db'.users = db.users
                   /\ db'.quizzes = db.quizzes
                   /\ db'.quiz_attempts = db.quiz_attempts
                   /\ ("user_id" \in DOMAIN Requester
                            /\ Get(Requester, "user_role", "") = "admin")
                      => http_response' =
                            jsonify("Cannot delete administrator accounts", 400)]_vars

\* an administrator asked for the deletion of the administrator account
\* while the administrator owned rows
C16_AdminDeletionRefused ==
    /\ http_request.route = "delete_user"
    /\ http_response = jsonify("Cannot delete administrator accounts", 400)
    /\ \E q \in db.quizzes : q.user_id = http_request.user_id

\* C17: after a delete_quiz request that succeeds, no row of quizzes has the
\* id of the request and no row of quiz_attempts or questions has it as quiz_id.
C17_DeleteQuizRemovesAll ==
    [][(/\ served' # served
        /\ http_request'.route = "delete_quiz"
        /\ http_response'.status = 200)
          => /\ \A q \in db'.quizzes : q.id # http_request'.quiz_id
             /\ \A a \in db'.quiz_attempts : a.quiz_id # http_request'.quiz_id
             /\ \A q \in db'.questions : q.quiz_id # http_request'.quiz_id]_vars

\* the attempts of user user_id at quiz quiz_id
AttemptsOf(database, user_id, quiz_id) ==
    {a \in database.quiz_attempts : a.user_id = user_id /\ a.quiz_id = quiz_id}

\* row `new` is row `old` with the five saved columns set from one of the
\* request bodies and the clock
SavedOver(old, new) ==
    \E data \in SaveBodies :
        /\ "score" \in DOMAIN data
        /\ new = [old EXCEPT
                    !.score = data.score, !.total_questions = data.total,
                    !.answers = json_dumps(normalize_answers(data.answers,
                                    ById({q \in db.questions : q.quiz_id = old.quiz_id}))),
                    !.time_spent = data.time_spent, !.completed_at = now]

\* C18: a save_attempt that succeeds in a session marked by retake_quiz, for
\* a quiz of which the user has an attempt row, rewrites one most recent row
\* of that user and quiz (score, total, answers, time spent, completion time)
\* and inserts none: the rows of that (user, quiz) keep their number and ids,
\* and every other row of quiz_attempts is unchanged.
C18_RetakeUpdatesInPlace ==
    [][(/\ served' # served
        /\ http_request'.route = "save_attempt"
        /\ http_response'.status = 200
        /\ Get(sessions[http_request'.client], "is_retake", FALSE)
        /\ AttemptsOf(db, sessions[http_request'.client]["user_id"],
                      sessions[http_request'.client]["current_quiz_id"]) # {})
          => LET user_id == sessions[http_request'.client]["user_id"]
                 quiz_id == sessions[http_request'.client]["current_quiz_id"]
                 mine == AttemptsOf(db, user_id, quiz_id)
             IN \E old \in mine : \E new \in db'.quiz_attempts :
                    /\ \A b \in mine : b.completed_at <= old.completed_at
                    /\ SavedOver(old, new)
                    /\ db'.quiz_attempts = (db.quiz_attempts \ {old}) \cup {new}
                    /\ Cardinality(AttemptsOf(db', user_id, quiz_id)) = Cardinality(mine)
                    /\ db'.sqlite_sequence = db.sqlite_sequence
                    /\ http_response'.json.attempt_id = old.id]_vars

\* a retake was saved over the earlier attempt while another attempt existed
C18_RetakeSaved ==
    /\ http_request.route = "save_attempt"
    /\ http_response.status = 200
    /\ <<"UPDATE", "quiz_attempts">> \in executed
    /\ Cardinality(db.quiz_attempts) > 1
    /\ \E a \in db.quiz_attempts : a.id = http_response.json.attempt_id /\ a.score = 2

\* C21: in every step of a generation run the synthesizer has been called at
\* most num_questions * 5 times, it is called only while the results list
\* holds fewer than num_questions questions, and the results list never
\* holds more than num_questions questions.
C21_AttemptBudget ==
    [][/\ qg_calls' <= request.num_questions * AttemptFactor
       /\ qg_calls' # qg_calls =>
             Len(response_questions) < request.num_questions
       /\ Len(response_questions') <= request.num_questions]_vars

\* a run that stopped early with a full results list, and budget left
C21_StoppedEarly ==
    /\ pc = "done" /\ request.num_questions = 2
    /\ Len(response_questions) = 2
    /\ qg_calls < 2 * AttemptFactor

\* C22: generate_distractors returns at most num_choices strings, none equal
\* to the answer ignoring case and no two equal ignoring case, and the
\* candidate set built by the topic terms never holds more than
\* num_choices * 4 entries.
C22_DistractorContract ==
    gd_pc # "first" =>
        /\ Len(gd_first) <= gd_count
        /\ \A i \in 1..Len(gd_first) : lower(gd_first[i]) # lower(gd_answer)
        /\ \A i, j \in 1..Len(gd_first) :
              i # j => lower(gd_first[i]) # lower(gd_first[j])
        /\ Cardinality(DistractorPool(gd_answer, gd_count, gd_context))
              <= gd_count * 4

\* some <...> tag, a match of the pattern of line 703, is in s
HasTag(s) ==
    \E i, j \in 1..Len(s) :
        /\ j > i + 1 /\ Ch(s, i) = "<" /\ Ch(s, j) = ">"
        /\ \A k \in (i + 1)..(j - 1) : Ch(s, k) # ">"

\* C23: for a non-empty raw question clean_question returns a string with no
\* <...> tag, with the first '?'-terminated segment only and exactly one
\* trailing '?', with an uppercase first character when that is a letter,
\* and of at most 15 words (a longer one cut to 12 words and "...?"); for the
\* empty string it returns the empty string.
C23_CleanedShape ==
    cq_pc # "raw" =>
        IF cq_raw = "" THEN cq_once = ""
        ELSE /\ ~HasTag(cq_once)
             /\ endswith(cq_once, "?") /\ count(cq_once, "?") = 1
             /\ isalpha(Ch(cq_once, 1)) => isupper(Ch(cq_once, 1))
             /\ Len(split(cq_once)) <= MaxQuestionWords
             /\ cq_raw = LongRaw =>
                   cq_once = "What did the cat the dog and the hen do on the...?"

\* the keys of `keys` are held alike, or not held, by sessions s and t
SameKeys(s, t, keys) ==
    \A k \in keys :
        /\ k \in DOMAIN s <=> k \in DOMAIN t
        /\ k \in DOMAIN s => s[k] = t[k]

\* C24: a /generate request of a logged-in user handled while the Gemini
\* service is unavailable, or while its generate_questions returns None or
\* no question (API error, unparsable JSON, every question filtered out),
\* is answered with an error status, inserts no quiz and no question row,
\* and leaves current_quiz, current_quiz_id and quiz_title of the session
\* as they were.
C24_GeminiFailureStoresNothing ==
    [][(/\ served' # served /\ http_request'.route = "generate"
        /\ "user_id" \in DOMAIN Requester
        /\ http_request'.gemini # "questions") =>
          /\ http_response'.status \in {400, 500}
          /\ db'.quizzes = db.quizzes /\ db'.questions = db.questions
          /\ db'.sqlite_sequence = db.sqlite_sequence
          /\ SameKeys(sessions'[http_request'.client], Requester,
                      {"current_quiz", "current_quiz_id", "quiz_title"})]_vars

\* C24, its case: every question was filtered out, the request failed and
\* the session still holds the quiz generated before
C24_AllFilteredOut ==
    /\ http_request.route = "generate"
    /\ http_request.gemini = "no_valid_question"
    /\ http_response.status = 500
    /\ "current_quiz" \in DOMAIN sessions[http_request.client]
    /\ db.quizzes # {}

\* C25: a session that holds user_role 'admin' holds the user_id of a user
\* whose stored role is 'admin'; so after an admin login followed in the
\* same session by a login or registration of another user, the routes
\* behind admin_required are not served.
C25_AdminRoleMatchesUser ==
    \A c \in Clients :
        Get(sessions[c], "user_role", "") = "admin" =>
            \E user \in Admins(db) : user.id = Get(sessions[c], "user_id", 0)

\* C26: there is at most one quiz_attempts row for each (user_id, quiz_id),
\* whatever generate, take_quiz, save_attempt, retake_quiz and
\* delete_attempt requests were handled, two save_attempt requests handled
\* with the same session contents included.
C26_OneAttemptPerQuiz ==
    \A a, b \in db.quiz_attempts :
        (a.user_id = b.user_id /\ a.quiz_id = b.quiz_id) => a = b

\* the session s holds none of the keys of a quiz in progress
NoQuizIn(s) ==
    DOMAIN s \cap {"current_quiz", "current_quiz_id", "is_retake", "quiz_title"} = {}

\* C27: after a save_attempt that succeeds the session holds none of
\* current_quiz, current_quiz_id, is_retake and quiz_title; only generate
\* and retake_quiz put such a key back; and a request of a logged-in user
\* that carries a session without them is answered 400 with no row written
\* by save_attempt and redirected to the dashboard by take_quiz.
C27_SavedQuizIsGone ==
    [][served' # served =>
          /\ (/\ http_request'.route = "save_attempt"
              /\ http_response'.status = 200) =>
                NoQuizIn(sessions'[http_request'.client])
          /\ (NoQuizIn(Requester) /\ ~NoQuizIn(sessions'[http_request'.client])) =>
                http_request'.route \in {"generate", "retake_quiz"}
          /\ (/\ http_request'.route = "save_attempt"
              /\ "user_id" \in DOMAIN http_request'.cookie
              /\ NoQuizIn(http_request'.cookie)) =>
                /\ http_response' = jsonify("No quiz id found", 400)
                /\ db' = db
          /\ (/\ http_request'.route = "take_quiz"
              /\ "user_id" \in DOMAIN Requester
              /\ NoQuizIn(Requester)) =>
                http_response' = redirect("quiz.dashboard")]_vars

\* C27, its case: the administrator saved an attempt, and a later
\* save_attempt that carried the session of that answer was answered 400
C27_SecondSaveRefused ==
    /\ http_request.route = "save_attempt"
    /\ "resent" \notin DOMAIN http_request
    /\ Get(http_request.cookie, "user_id", 0) = 1
    /\ NoQuizIn(http_request.cookie)
    /\ http_response.status = 400
    /\ \E a \in db.quiz_attempts : a.user_id = 1

\* the routes that take an attempt id
AttemptRoutes == {"view_attempt", "retake_quiz", "edit_attempt_title", "delete_attempt"}

\* the routes behind admin_required
AdminRoutes == {"delete_user", "delete_quiz"}

\* the answers that refuse an attempt id (or an empty title, which
\* edit_attempt_title tests first)
Refusals ==
    {jsonify("Quiz attempt not found", 404), redirect("progress.history"),
     jsonify("Title cannot be empty", 400)}

\* the session a request carried: its cookie when recorded, else the
\* session of its client before the step
Carried == IF "cookie" \in DOMAIN http_request'
           THEN http_request'.cookie ELSE Requester

\* C28: requests made in the session of a user A do not touch what another
\* user owns. A view_attempt, retake_quiz, edit_attempt_title or
\* delete_attempt request with an attempt id that is not A's is refused and
\* leaves the tables and the quiz keys of the session as they were; a
\* save_attempt only writes rows with user_id A for a quiz created by A; and
\* no request to a route open to every user removes or changes an attempt or
\* a quiz of another user.
C28_OtherUsersUntouched ==
    [][(served' # served /\ "user_id" \in DOMAIN Carried) =>
          /\ (/\ http_request'.route \in AttemptRoutes
              /\ ~\E a \in db.quiz_attempts :
                     /\ a.id = http_request'.attempt_id
                     /\ a.user_id = Carried["user_id"]) =>
                /\ db' = db
                /\ SameKeys(sessions'[http_request'.client], Requester,
                            {"current_quiz", "current_quiz_id", "is_retake",
                             "quiz_title"})
                /\ http_response' \in Refusals
          /\ http_request'.route = "save_attempt" =>
                \A a \in db'.quiz_attempts \ db.quiz_attempts :
                    /\ a.user_id = Carried["user_id"]
                    /\ \A q \in db.quizzes :
                          q.id = a.quiz_id => q.user_id = Carried["user_id"]
          /\ http_request'.route \notin AdminRoutes =>
                /\ \A a \in db.quiz_attempts :
                      a.user_id # Carried["user_id"] => a \in db'.quiz_attempts
                /\ \A q \in db.quizzes :
                      q.user_id # Carried["user_id"] => q \in db'.quizzes]_vars

===========================================================================
